---- MODULE Spec2Model ----
(***************************************************************************)
(* A model of the time-resolution engine of time-mcp-server: the Go        *)
(* TimeServer (GetCurrentTime, ConvertTime, ParseNatural) of main.go, and  *)
(* of the TypeScript MCPClient that talks to the server over its standard  *)
(* streams.                                                                *)
(*                                                                         *)
(* Conventions.  A Go string whose characters matter (the HH:MM argument,  *)
(* a formatted datetime, the time_difference) is a sequence of             *)
(* one-character strings; a zone identifier is an atomic string; an error  *)
(* message is the sequence of the pieces it is concatenated from, and the  *)
(* empty sequence is the nil error.  An instant is a number of seconds     *)
(* since the Unix epoch.                                                   *)
(***************************************************************************)
EXTENDS Integers, Sequences, FiniteSets, TLC

VARIABLES host, clock, srv, call, client, procs, promises

vars == <<host, clock, srv, call, client, procs, promises>>

\* The variables of the Go server and those of the TypeScript client.
serverVars == <<host, clock, srv, call>>

clientVars == <<client, procs, promises>>

-----------------------------------------------------------------------------
(* Integer helpers with Go's semantics.                                    *)

Abs(x) == IF x < 0 THEN -x ELSE x

\* F applied to the value of x, with x evaluated once however often F uses it.
With(x, F(_)) == CHOOSE r \in {F(y) : y \in {x}} : TRUE

\* Go's integer division truncates toward zero.
GoDiv(a, b) == IF a >= 0 THEN a \div b ELSE -((-a) \div b)

\* Go's remainder has the sign of the dividend.
GoMod(a, b) == a - b * GoDiv(a, b)

Digit(d) == SubSeq(<<"0", "1", "2", "3", "4", "5", "6", "7", "8", "9">>, d + 1, d + 1)

DigitChars == {"0", "1", "2", "3", "4", "5", "6", "7", "8", "9"}

DigitValue(c) == CHOOSE d \in 0..9 : Digit(d) = <<c>>

\* The decimal digits of a natural number, without padding (verb %d).
RECURSIVE Itoa(_)
Itoa(n) == IF n < 10 THEN Digit(n) ELSE Itoa(n \div 10) \o Digit(n % 10)

\* A natural number below 100 as two digits (layout elements 01, 02, 15, 04, 05).
Pad2(n) == IF n < 10 THEN <<"0">> \o Digit(n) ELSE Itoa(n)

\* A year as four digits (layout element 2006).
Pad4(n) == IF n < 10 THEN <<"0", "0", "0">> \o Itoa(n)
           ELSE IF n < 100 THEN <<"0", "0">> \o Itoa(n)
           ELSE IF n < 1000 THEN <<"0">> \o Itoa(n)
           ELSE Itoa(n)

-----------------------------------------------------------------------------
(* The proleptic Gregorian calendar of package time (time.Date and         *)
(* Time.Date/Clock), on days since 1970-01-01.                             *)

DaysFromCivil(y, m, d) ==
    LET yy  == IF m <= 2 THEN y - 1 ELSE y
        era == yy \div 400
        yoe == yy - era * 400
        mp  == IF m > 2 THEN m - 3 ELSE m + 9
        doy == (153 * mp + 2) \div 5 + d - 1
        doe == yoe * 365 + yoe \div 4 - yoe \div 100 + doy
    IN  era * 146097 + doe - 719468

CivilFromDays(z) ==
    LET zz  == z + 719468
        era == zz \div 146097
        doe == zz - era * 146097
        yoe == (doe - doe \div 1460 + doe \div 36524 - doe \div 146096) \div 365
        doy == doe - (365 * yoe + yoe \div 4 - yoe \div 100)
        mp  == (5 * doy + 2) \div 153
        d   == doy - (153 * mp + 2) \div 5 + 1
        m   == IF mp < 10 THEN mp + 3 ELSE mp - 9
        y   == yoe + era * 400 + (IF m <= 2 THEN 1 ELSE 0)
    IN  [year |-> y, month |-> m, day |-> d]

\* The wall clock shown by an instant whose zone offset is `offset`.
Civil(unix, offset) ==
    LET local == unix + offset
        secs  == local % 86400
    IN  With(CivilFromDays(local \div 86400), LAMBDA ymd :
            [year |-> ymd.year, month |-> ymd.month, day |-> ymd.day,
             hour |-> secs \div 3600, minute |-> (secs % 3600) \div 60,
             second |-> secs % 60])

-----------------------------------------------------------------------------
(* The host's timezone database, as time.LoadLocation sees it: for each    *)
(* zone the periods of constant offset covering 2024 to 2026, each with    *)
(* the instant it starts and ends at, its offset from UTC in seconds, the  *)
(* zone's own DST marker and its abbreviation.                             *)

Period(s, e, off, dst, abbr) ==
    [start |-> s, end |-> e, offset |-> off, isDST |-> dst, abbr |-> abbr]

FixedZone(off, abbr) == <<Period(0, 2000000000, off, FALSE, abbr)>>

\* A zone that is on standard time at the start of 2024 (northern rules).
NorthernZone(std, dst, sAbbr, dAbbr, t) ==
    << Period(0, t[1], std, FALSE, sAbbr),
       Period(t[1], t[2], dst, TRUE, dAbbr),
       Period(t[2], t[3], std, FALSE, sAbbr),
       Period(t[3], t[4], dst, TRUE, dAbbr),
       Period(t[4], t[5], std, FALSE, sAbbr),
       Period(t[5], t[6], dst, TRUE, dAbbr),
       Period(t[6], 2000000000, std, FALSE, sAbbr) >>

\* A zone that is on daylight time at the start of 2024 (southern rules).
SouthernZone(std, dst, sAbbr, dAbbr, t) ==
    << Period(0, t[1], dst, TRUE, dAbbr),
       Period(t[1], t[2], std, FALSE, sAbbr),
       Period(t[2], t[3], dst, TRUE, dAbbr),
       Period(t[3], t[4], std, FALSE, sAbbr),
       Period(t[4], t[5], dst, TRUE, dAbbr),
       Period(t[5], t[6], std, FALSE, sAbbr),
       Period(t[6], 2000000000, dst, TRUE, dAbbr) >>

\* The zones of hosts whose zone data gives no usable name: each is a fixed
\* offset with an empty abbreviation or the abbreviation "Local".
UnnamedZones ==
    [ z \in {"Host+09:00", "Host-05:00", "Host+00:00", "Host+05:45",
             "Host-03:30", "Host-00:30", "Host-09:30", "Host+05:30"} |->
        CASE z = "Host+09:00" -> FixedZone(32400, "")
          [] z = "Host-05:00" -> FixedZone(-18000, "Local")
          [] z = "Host+00:00" -> FixedZone(0, "")
          [] z = "Host+05:45" -> FixedZone(20700, "")
          [] z = "Host-03:30" -> FixedZone(-12600, "")
          [] z = "Host-00:30" -> FixedZone(-1800, "")
          [] z = "Host-09:30" -> FixedZone(-34200, "Local")
          [] z = "Host+05:30" -> FixedZone(19800, "Local") ]

tzdata ==
    [ z \in {"UTC", "America/New_York", "America/Chicago", "Asia/Tokyo",
             "Asia/Kolkata", "Asia/Kathmandu", "Australia/Sydney"}
             \cup DOMAIN UnnamedZones |->
        CASE z \in DOMAIN UnnamedZones -> UnnamedZones[z]
          [] z = "UTC" -> FixedZone(0, "UTC")
          [] z = "America/New_York" ->
               NorthernZone(-18000, -14400, "EST", "EDT",
                   <<1710054000, 1730613600, 1741503600,
                     1762063200, 1772953200, 1793512800>>)
          [] z = "America/Chicago" ->
               NorthernZone(-21600, -18000, "CST", "CDT",
                   <<1710057600, 1730617200, 1741507200,
                     1762066800, 1772956800, 1793516400>>)
          [] z = "Asia/Tokyo" -> FixedZone(32400, "JST")
          [] z = "Asia/Kolkata" -> FixedZone(19800, "IST")
          [] z = "Asia/Kathmandu" -> FixedZone(20700, "+0545")
          [] z = "Australia/Sydney" ->
               SouthernZone(36000, 39600, "AEST", "AEDT",
                   <<1712419200, 1728144000, 1743868800,
                     1759593600, 1775318400, 1791043200>>) ]

\* Whether a zone name holds ".." or starts with a slash: names the library
\* refuses before it looks at the database.
MalformedNames == {"../UTC"}

\* time.LoadLocation: "" and "UTC" are UTC, "Local" is the host's zone, a
\* malformed name fails with a fixed message, any other name not in the
\* database fails with "unknown time zone <name>".
LoadLocation(name) ==
    IF name = "" \/ name = "UTC" THEN [loc |-> "UTC", err |-> <<>>]
    ELSE IF name = "Local" THEN [loc |-> host.zone, err |-> <<>>]
    ELSE IF name \in MalformedNames
         THEN [loc |-> "", err |-> <<"time: invalid location name">>]
    ELSE IF name \in DOMAIN tzdata THEN [loc |-> name, err |-> <<>>]
    ELSE [loc |-> "", err |-> <<"unknown time zone ", name>>]

\* Location.lookup: the period of the zone in effect at an instant.
Lookup(loc, unix) ==
    LET ps == tzdata[loc]
        i  == CHOOSE k \in 1..Len(ps) : ps[k].start <= unix /\ unix < ps[k].end
    IN  ps[i]

\* Time.Zone: the offset in effect at the instant of t, in t's location.
ZoneOffset(t) == Lookup(t.loc, t.unix).offset

\* The wall clock of a time read again in another location: another instant.
InKeepingWall(t, loc) ==
    [unix |-> t.unix + Lookup(t.loc, t.unix).offset - Lookup(loc, t.unix).offset,
     loc |-> loc]

\* Time.In: the same instant in another location.
In(t, loc) == [unix |-> t.unix, loc |-> loc]

\* A Date that keeps the offset of its first lookup.
DateOfFirstLookup(y, mo, d, h, mi, s, loc) ==
    With(DaysFromCivil(y, mo, d) * 86400 + h * 3600 + mi * 60 + s, LAMBDA wall :
    With(Lookup(loc, wall), LAMBDA p :
        [unix |-> wall - p.offset, loc |-> loc]))

\* time.Date: the instant at which the wall clock of `loc` shows the given
\* date and time.  The offset is first looked up as if the wall clock were
\* UTC, and looked up again at the resulting instant when that instant lies
\* outside the period found (a time in a gap or a repeated hour).
Date(y, mo, d, h, mi, s, loc) ==
    With(DaysFromCivil(y, mo, d) * 86400 + h * 3600 + mi * 60 + s, LAMBDA wall :
    With(Lookup(loc, wall), LAMBDA p :
        LET utc == wall - p.offset
            off == IF p.offset # 0 /\ (utc < p.start \/ utc >= p.end)
                   THEN Lookup(loc, utc).offset
                   ELSE p.offset
        IN  [unix |-> wall - off, loc |-> loc]))

\* Time.Year, Month, Day, Hour, Minute, Second in the time's own location.
Wall(t) == Civil(t.unix, ZoneOffset(t))

\* A zone suffix that prints the hours of the offset and drops its minutes.
FormatOffsetWholeHours(off) ==
    IF off = 0 THEN <<"Z">>
    ELSE (IF off < 0 THEN <<"-">> ELSE <<"+">>)
         \o Pad2(Abs(off) \div 3600) \o <<":", "0", "0">>

\* The numeric zone of layout element Z07:00; the element prints "Z" for UTC,
\* that is for an offset of zero.
FormatOffset(off) ==
    IF off = 0 THEN <<"Z">>
    ELSE (IF off < 0 THEN <<"-">> ELSE <<"+">>)
         \o Pad2(Abs(off) \div 3600) \o <<":">> \o Pad2((Abs(off) % 3600) \div 60)

\* Time.Format(time.RFC3339), layout "2006-01-02T15:04:05Z07:00".
FormatRFC3339(t) ==
    With(Wall(t), LAMBDA w :
        Pad4(w.year) \o <<"-">> \o Pad2(w.month) \o <<"-">> \o Pad2(w.day)
        \o <<"T">> \o Pad2(w.hour) \o <<":">> \o Pad2(w.minute) \o <<":">>
        \o Pad2(w.second) \o FormatOffset(ZoneOffset(t)))

-----------------------------------------------------------------------------
(* String helpers of packages strings and fmt.                             *)

\* strings.Split(s, sep) for a one-character separator: the segments between
\* the separators, so a string without separator (the empty one too) yields
\* one segment.
RECURSIVE Split(_, _)
Split(s, sep) ==
    IF \A k \in 1..Len(s) : s[k] # sep THEN <<s>>
    ELSE LET i == CHOOSE k \in 1..Len(s) :
                      s[k] = sep /\ \A j \in 1..(k - 1) : s[j] # sep
         IN  <<SubSeq(s, 1, i - 1)>> \o Split(SubSeq(s, i + 1, Len(s)), sep)

\* strings.TrimRight(s, cutset): s without its trailing characters that are
\* in the cutset.
RECURSIVE TrimRight(_, _)
TrimRight(s, cutset) ==
    IF Len(s) > 0 /\ s[Len(s)] \in cutset
    THEN TrimRight(SubSeq(s, 1, Len(s) - 1), cutset)
    ELSE s

\* The value of a sequence of decimal digits.
RECURSIVE Atoi(_)
Atoi(ds) ==
    IF Len(ds) = 0 THEN 0
    ELSE 10 * Atoi(SubSeq(ds, 1, Len(ds) - 1)) + DigitValue(ds[Len(ds)])

\* The length of the longest prefix of s made of characters of set.
RECURSIVE PrefixLen(_, _)
PrefixLen(s, set) ==
    IF Len(s) > 0 /\ s[1] \in set THEN 1 + PrefixLen(Tail(s), set) ELSE 0

\* stringToInt: fmt.Sscanf(s, "%d", &result).  The scan skips leading
\* blanks, takes an optional sign and then the longest run of digits and
\* underscores, which must not be empty and must hold no underscore; what
\* follows the run is left unread and is no error.
stringToInt(s) ==
    With(SubSeq(s, PrefixLen(s, {" "}) + 1, Len(s)), LAMBDA body :
        LET signed == Len(body) > 0 /\ body[1] \in {"+", "-"}
            rest   == IF signed THEN Tail(body) ELSE body
        IN  With(SubSeq(rest, 1, PrefixLen(rest, DigitChars \cup {"_"})), LAMBDA tok :
                IF Len(body) = 0 \/ Len(rest) = 0
                THEN [val |-> 0, err |-> <<"unexpected EOF">>]
                ELSE IF Len(tok) = 0 THEN [val |-> 0, err |-> <<"expected integer">>]
                ELSE IF \E k \in 1..Len(tok) : tok[k] = "_"
                     THEN [val |-> 0, err |-> <<"strconv.ParseInt: invalid syntax">>]
                ELSE [val |-> IF signed /\ body[1] = "-" THEN -Atoi(tok) ELSE Atoi(tok),
                      err |-> <<>>]))

\* A format of whole hours that always writes a plus sign.
SprintfWholeUnsigned(secs) ==
    <<"+">> \o Itoa(Abs(secs) \div 3600) \o <<".", "0", "h">>

\* fmt.Sprintf("%+.1fh", x) for a whole number of hours x = secs / 3600.
SprintfWhole(secs) ==
    (IF secs < 0 THEN <<"-">> ELSE <<"+">>)
    \o Itoa(Abs(secs) \div 3600) \o <<".", "0", "h">>

\* fmt.Sprintf("%+.2fh", x) for x = secs / 3600: x rounded to hundredths (an
\* offset of whole minutes is never half way between two hundredths).
SprintfFraction(secs) ==
    LET h == (Abs(secs) * 100 + 1800) \div 3600
    IN  (IF secs < 0 THEN <<"-">> ELSE <<"+">>)
        \o Itoa(h \div 100) \o <<".">> \o Pad2(h % 100) \o <<"h">>

\* The time-difference string of ConvertTime for an offset delta in seconds.
FormatTimeDifference(secs) ==
    IF secs % 3600 = 0
    THEN SprintfWhole(secs)
    ELSE TrimRight(TrimRight(SprintfFraction(secs), {"0"}), {"."})

-----------------------------------------------------------------------------
(* TimeServer.                                                             *)

\* TimeResult{} and TimeConversionResult{}: the zero values returned beside
\* an error.
ZeroTimeResult == [timezone |-> "", datetime |-> <<>>, is_dst |-> FALSE]

\* A conversion result with its source zone filled in.
PartialConversionResult ==
    [source |-> [timezone |-> "UTC", datetime |-> <<>>, is_dst |-> FALSE],
     target |-> ZeroTimeResult, time_difference |-> <<>>]

ZeroConversionResult ==
    [source |-> ZeroTimeResult, target |-> ZeroTimeResult, time_difference |-> <<>>]

\* time.Now(): the system clock, in the host's Local location.
TimeNow == [unix |-> clock, loc |-> host.zone]

\* The offset taken as the standard one: the offset of the time's location at
\* local midnight of January 1 of the time's local year.
StdOffset(t) ==
    With(Date(Wall(t).year, 1, 1, 0, 0, 0, t.loc), LAMBDA jan1 : ZoneOffset(jan1))

\* A DST flag taken from the zone's own DST marker.
IsDSTByMarker(t) == Lookup(t.loc, t.unix).isDST

\* The DST flag of a result: whether the offset in effect differs from the
\* standard one.
IsDST(t) == ZoneOffset(t) # StdOffset(t)

\* fmt.Sprintf("%+d", n) and fmt.Sprintf("%02d", n), as identifier text.
SprintfSigned(n) == (IF n < 0 THEN "-" ELSE "+") \o ToString(Abs(n))

SprintfPad2(n) ==
    IF n < 0 THEN "-" \o ToString(Abs(n))
    ELSE IF n < 10 THEN "0" \o ToString(n)
    ELSE ToString(n)

\* getLocalTimezone: the abbreviation the host reports for its zone now, or,
\* when that is empty or "Local", a name built from the host's offset.
getLocalTimezone ==
    LET p     == Lookup(host.zone, clock)
        tz    == p.abbr
        hours == GoDiv(p.offset, 3600)
        mins  == GoDiv(GoMod(p.offset, 3600), 60)
    IN  IF tz # "" /\ tz # "Local" THEN tz
        ELSE IF mins = 0 THEN "UTC" \o SprintfSigned(hours)
        ELSE "UTC" \o SprintfSigned(hours) \o ":" \o SprintfPad2(mins)

\* The clock a server is built with: the system clock.
SystemClock == [fixed |-> FALSE, unix |-> 0, loc |-> ""]

\* NewTimeServer(localTimezone): an empty argument is replaced by the detected
\* zone.
NewTimeServer(localTimezone) ==
    [localTimezone |-> IF localTimezone = "" THEN getLocalTimezone
                       ELSE localTimezone,
     nowFunc |-> SystemClock]

\* s.nowFunc(): the injected instant when one was injected, else the system
\* clock.
NowFunc(s) ==
    IF s.nowFunc.fixed THEN [unix |-> s.nowFunc.unix, loc |-> s.nowFunc.loc]
    ELSE TimeNow

\* A resolution that takes UTC, not the configured zone, for an empty
\* identifier.
GetCurrentTimeResolveEmptyAsUTC(s, timezone) ==
    LET tz == IF timezone = "" THEN "UTC" ELSE timezone
        l  == LoadLocation(tz)
    IN  [timezone |-> tz, loc |-> l.loc,
         err |-> IF l.err # <<>> THEN <<"invalid timezone: ">> \o l.err ELSE <<>>]

\* GetCurrentTime up to the resolution of the zone: the identifier after
\* defaulting, its location and the error.
GetCurrentTimeResolve(s, timezone) ==
    LET tz == IF timezone = "" THEN s.localTimezone ELSE timezone
        l  == LoadLocation(tz)
    IN  [timezone |-> tz, loc |-> l.loc,
         err |-> IF l.err # <<>> THEN <<"invalid timezone: ">> \o l.err ELSE <<>>]

\* A GetCurrentTime that returns the name of the resolved location.
GetCurrentTimeResultWithLocationName(r, now) ==
    With(In(now, r.loc), LAMBDA currentTime :
        [timezone |-> r.loc,
         datetime |-> FormatRFC3339(currentTime),
         is_dst   |-> IsDST(currentTime)])

\* GetCurrentTime from the reading of the clock on.
GetCurrentTimeResult(r, now) ==
    With(In(now, r.loc), LAMBDA currentTime :
        [timezone |-> r.timezone,
         datetime |-> FormatRFC3339(currentTime),
         is_dst   |-> IsDST(currentTime)])

\* The check of the parsed hour: err != nil || hour < 0 || hour > 23.
InvalidHour(hour) == hour.err # <<>> \/ hour.val < 0 \/ hour.val > 23

\* A check of the minute that lets 60 through.
InvalidMinuteUpTo60(minute) == minute.err # <<>> \/ minute.val < 0 \/ minute.val > 60

\* The check of the parsed minute: err != nil || minute < 0 || minute > 59.
InvalidMinute(minute) == minute.err # <<>> \/ minute.val < 0 \/ minute.val > 59

\* A ConvertTime that loads the target zone before the source zone.
ConvertTimeParseTargetFirst(s, sourceTimezone, timeStr, targetTimezone) ==
    LET src == IF sourceTimezone = "" THEN s.localTimezone ELSE sourceTimezone
        tgt == IF targetTimezone = "" THEN s.localTimezone ELSE targetTimezone
        sl  == LoadLocation(src)
        tl  == LoadLocation(tgt)
        ok(h, m, e) ==
            [sourceTimezone |-> src, targetTimezone |-> tgt,
             sourceLoc |-> sl.loc, targetLoc |-> tl.loc,
             hour |-> h, minute |-> m, err |-> e]
    IN  IF tl.err # <<>>
        THEN ok(0, 0, <<"invalid target timezone: ">> \o tl.err)
        ELSE IF sl.err # <<>>
        THEN ok(0, 0, <<"invalid source timezone: ">> \o sl.err)
        ELSE With(Split(timeStr, ":"), LAMBDA timeParts :
            IF Len(timeParts) # 2
            THEN ok(0, 0, <<"invalid time format: expected HH:MM [24-hour format]">>)
            ELSE With(stringToInt(timeParts[1]), LAMBDA hour :
                IF InvalidHour(hour)
                THEN ok(0, 0, <<"invalid hour: expected 0-23">>)
                ELSE With(stringToInt(timeParts[2]), LAMBDA minute :
                    IF InvalidMinute(minute)
                    THEN ok(hour.val, 0, <<"invalid minute: expected 0-59">>)
                    ELSE ok(hour.val, minute.val, <<>>))))

\* ConvertTime up to the parsing of the time: the identifiers after
\* defaulting, the locations, the hour and minute, and the first error.
ConvertTimeParse(s, sourceTimezone, timeStr, targetTimezone) ==
    LET src == IF sourceTimezone = "" THEN s.localTimezone ELSE sourceTimezone
        tgt == IF targetTimezone = "" THEN s.localTimezone ELSE targetTimezone
        sl  == LoadLocation(src)
        tl  == LoadLocation(tgt)
        ok(h, m, e) ==
            [sourceTimezone |-> src, targetTimezone |-> tgt,
             sourceLoc |-> sl.loc, targetLoc |-> tl.loc,
             hour |-> h, minute |-> m, err |-> e]
    IN  IF sl.err # <<>>
        THEN ok(0, 0, <<"invalid source timezone: ">> \o sl.err)
        ELSE IF tl.err # <<>>
        THEN ok(0, 0, <<"invalid target timezone: ">> \o tl.err)
        ELSE With(Split(timeStr, ":"), LAMBDA timeParts :
            IF Len(timeParts) # 2
            THEN ok(0, 0, <<"invalid time format: expected HH:MM [24-hour format]">>)
            ELSE With(stringToInt(timeParts[1]), LAMBDA hour :
                IF InvalidHour(hour)
                THEN ok(0, 0, <<"invalid hour: expected 0-23">>)
                ELSE With(stringToInt(timeParts[2]), LAMBDA minute :
                    IF InvalidMinute(minute)
                    THEN ok(hour.val, 0, <<"invalid minute: expected 0-59">>)
                    ELSE ok(hour.val, minute.val, <<>>))))

\* A source time built from the date the clock shows in the source zone.
SourceTimeOnSourceDate(v, now) ==
    With(Wall(In(now, v.sourceLoc)), LAMBDA w :
        Date(w.year, w.month, w.day, v.hour, v.minute, 0, v.sourceLoc))

\* The time ConvertTime builds in the source zone: the date of now in now's
\* own (the host's) location with the parsed hour and minute.
SourceTime(v, now) ==
    With(Wall(now), LAMBDA w :
        Date(w.year, w.month, w.day, v.hour, v.minute, 0, v.sourceLoc))

\* A delta taken between the hours of day of the two wall clocks.
HourOfDayDelta(sourceTime, targetTime) ==
    (Wall(targetTime).hour - Wall(sourceTime).hour) * 3600

\* The offset delta ConvertTime reports, in seconds: target minus source.
OffsetDelta(sourceTime, targetTime) == ZoneOffset(targetTime) - ZoneOffset(sourceTime)

\* ConvertTime from the reading of the clock on.
ConvertTimeResult(v, now) ==
    With(SourceTime(v, now), LAMBDA sourceTime :
    With(In(sourceTime, v.targetLoc), LAMBDA targetTime :
        [source |-> [timezone |-> v.sourceTimezone,
                     datetime |-> FormatRFC3339(sourceTime),
                     is_dst   |-> IsDST(sourceTime)],
         target |-> [timezone |-> v.targetTimezone,
                     datetime |-> FormatRFC3339(targetTime),
                     is_dst   |-> IsDST(targetTime)],
         time_difference |->
             With(OffsetDelta(sourceTime, targetTime), LAMBDA d :
                 FormatTimeDifference(d))]))

\* The day of the week of a calendar date, Sunday being 0.
Weekday(y, m, d) == (DaysFromCivil(y, m, d) + 4) % 7

\* The days from a reference to "next monday": the coming Monday, a week on
\* when the reference is itself a Monday.
DaysToNextMonday(w) ==
    LET diff == 1 - Weekday(w.year, w.month, w.day)
    IN  IF diff > 0 THEN diff ELSE 7 + diff

\* The grammar engine, parser.Parse(expression, reference): the instant an
\* expression denotes relative to the reference, in the reference's location
\* (ok), or no match (neither ok nor an error), or an error of the engine.
\* "at 99pm" stands for an expression a rule of the engine fails on.
WhenParse(expression, ref) ==
    With(Wall(ref), LAMBDA w :
        LET match(t) == [ok |-> TRUE, err |-> <<>>, time |-> t]
        IN  CASE expression = "tomorrow at 9:30am" ->
                   match(Date(w.year, w.month, w.day + 1, 9, 30, 0, ref.loc))
              [] expression = "next monday 2pm" ->
                   match(Date(w.year, w.month, w.day + DaysToNextMonday(w),
                              14, 0, 0, ref.loc))
              [] expression = "March 9, 2025, 1:59 AM" ->
                   match(Date(2025, 3, 9, 1, 59, 0, ref.loc))
              [] expression = "March 9, 2025, 3:01 AM" ->
                   match(Date(2025, 3, 9, 3, 1, 0, ref.loc))
              [] expression = "at 99pm" ->
                   [ok |-> FALSE, err |-> <<"hour out of range">>, time |-> ref]
              [] OTHER -> [ok |-> FALSE, err |-> <<>>, time |-> ref])

\* ParseNatural up to the resolution of the zone.
ParseNaturalResolve(s, timezone) ==
    LET tz == IF timezone = "" THEN s.localTimezone ELSE timezone
        l  == LoadLocation(tz)
    IN  [timezone |-> tz, loc |-> l.loc,
         err |-> IF l.err # <<>> THEN <<"invalid timezone: ">> \o l.err ELSE <<>>]

\* The message of ParseNatural for an expression the engine did not resolve:
\* the expression, and the engine's error when it reported one.
CouldNotParse(expression, err) ==
    <<"could not parse expression '", expression, "'">>
    \o (IF err # <<>> THEN <<": ">> \o err ELSE <<>>)

\* A ParseNatural that returns the reference when the engine resolves
\* nothing.
ParseNaturalResultOrNow(r, expression, now) ==
    With(WhenParse(expression, In(now, r.loc)), LAMBDA p :
    With(In(p.time, r.loc), LAMBDA t :
        [res |-> [timezone |-> r.timezone,
                  datetime |-> FormatRFC3339(t),
                  is_dst   |-> IsDST(t)],
         err |-> <<>>]))

\* A ParseNatural that hands the engine the reference as the clock gave it,
\* not projected into the resolved zone.
ParseNaturalResultUnprojected(r, expression, now) ==
    With(WhenParse(expression, now), LAMBDA p :
    With(In(p.time, r.loc), LAMBDA t :
        IF ~p.ok
        THEN [res |-> ZeroTimeResult, err |-> CouldNotParse(expression, p.err)]
        ELSE [res |-> [timezone |-> r.timezone,
                       datetime |-> FormatRFC3339(t),
                       is_dst   |-> IsDST(t)],
              err |-> <<>>]))

\* ParseNatural from the reading of the clock on: the reference is now in the
\* resolved zone; the engine's result is projected into that zone again.
ParseNaturalResult(r, expression, now) ==
    With(WhenParse(expression, In(now, r.loc)), LAMBDA p :
    With(In(p.time, r.loc), LAMBDA t :
        IF ~p.ok
        THEN [res |-> ZeroTimeResult, err |-> CouldNotParse(expression, p.err)]
        ELSE [res |-> [timezone |-> r.timezone,
                       datetime |-> FormatRFC3339(t),
                       is_dst   |-> IsDST(t)],
              err |-> <<>>]))

-----------------------------------------------------------------------------
(* The TypeScript MCPClient.  A server process the client spawned is a     *)
(* record of the requests written to its stdin and not answered yet, the   *)
(* bytes it wrote to its stdout that no 'data' event has delivered yet,    *)
(* whether its stdin is open and whether the client's 'data' listener is   *)
(* attached.  A response line is three bytes: a head that carries the id,  *)
(* a body that carries the result or the error, and the newline.  What a   *)
(* call of rpc returns is a promise: the id and method of its request, the *)
(* process the request was written to (0 when it was not written), its     *)
(* state, the reason it was rejected for, whether its 10-second timer is   *)
(* armed, and how often the callbacks of its pending entry were invoked.   *)

\* The fields of a new MCPClient; proc 0 is the null handle, and the pending
\* map takes a request id to the promise its callbacks settle.
NewMCPClient ==
    [proc |-> 0, nextId |-> 1, pending |-> <<>>, initialized |-> FALSE,
     toolList |-> <<>>]

\* Map.set and Map.delete.
MapSet(m, key, v) == [x \in DOMAIN m \cup {key} |-> IF x = key THEN v ELSE m[x]]

MapDelete(m, key) == [x \in DOMAIN m \ {key} |-> m[x]]

\* The bytes of a response line.
HeadByte(id) == [part |-> "head", id |-> id, kind |-> ""]

BodyByte(id, kind) == [part |-> "body", id |-> id, kind |-> kind]

Newline == [part |-> "nl", id |-> 0, kind |-> ""]

ResponseLine(id, kind) == <<HeadByte(id), BodyByte(id, kind), Newline>>

\* buf.toString().split(/\r?\n/): the pieces between the newlines.
RECURSIVE SplitLines(_)
SplitLines(buf) ==
    IF \A n \in 1..Len(buf) : buf[n] # Newline THEN <<buf>>
    ELSE LET n == CHOOSE m \in 1..Len(buf) :
                      buf[m] = Newline /\ \A l \in 1..(m - 1) : buf[l] # Newline
         IN  <<SubSeq(buf, 1, n - 1)>> \o SplitLines(SubSeq(buf, n + 1, Len(buf)))

\* Whether a piece parses to a JSON-RPC response or error with an id: only a
\* head followed by its body does; a head alone has no result and no error,
\* a body alone is not an object.
IsJSONRPCResponse(line) ==
    /\ Len(line) = 2
    /\ line[1].part = "head"
    /\ line[2].part = "body"
    /\ line[1].id = line[2].id

\* The promise rpc returns.
Promise(id, method, cont, proc, state, reason, timer) ==
    [id |-> id, method |-> method, cont |-> cont, proc |-> proc,
     state |-> state, reason |-> reason, timer |-> timer, invoked |-> 0]

\* The reject callback of a pending entry: it clears the timer and rejects
\* the promise, which has an effect only on a promise not settled yet.
PendingReject(w, k, reason) ==
    [w EXCEPT !.promises[k] =
        [@ EXCEPT !.timer = FALSE,
                  !.invoked = @ + 1,
                  !.state = IF @ = "pending" THEN "rejected" ELSE @,
                  !.reason = IF w.promises[k].state = "pending" THEN reason ELSE @]]

\* The resolve callback of a pending entry: it clears the timer, rejects the
\* promise for an error response and resolves it for a result; the caller
\* awaiting the promise then continues: initialize sets the initialized flag
\* and listTools stores the tools.
PendingResolve(w, k, kind) ==
    LET was == w.promises[k]
        w1  == [w EXCEPT !.promises[k] =
                   [@ EXCEPT !.timer = FALSE,
                             !.invoked = @ + 1,
                             !.state = IF @ # "pending" THEN @
                                       ELSE IF kind = "error" THEN "rejected"
                                       ELSE "resolved",
                             !.reason = IF was.state = "pending" /\ kind = "error"
                                        THEN "server error" ELSE @]]
    IN  IF was.state # "pending" \/ kind = "error" THEN w1
        ELSE IF was.cont = "initialize"
             THEN [w1 EXCEPT !.client.initialized = TRUE]
        ELSE IF was.cont = "listTools"
             THEN [w1 EXCEPT !.client.toolList =
                                <<"get_current_time", "convert_time">>]
        ELSE w1

\* handle(line), for a line process p wrote: a piece that is not a response
\* is dropped, a response for an id without a pending entry is dropped, any
\* other response removes the entry and resolves it.  The process record
\* keeps the ids whose responses reached this point.
handle(w, p, line) ==
    IF ~IsJSONRPCResponse(line) THEN w
    ELSE LET id == line[1].id
             w1 == [w EXCEPT !.procs[p].handled = @ \cup {id}]
         IN  IF id \notin DOMAIN w.client.pending THEN w1
             ELSE PendingResolve(
                      [w1 EXCEPT !.client.pending = MapDelete(@, id)],
                      w.client.pending[id], line[2].kind)

\* The stdout 'data' listener: every non-empty piece of the chunk is handled,
\* in order.
RECURSIVE HandleEach(_, _, _)
HandleEach(w, p, lines) ==
    IF lines = <<>> THEN w
    ELSE HandleEach(IF lines[1] = <<>> THEN w ELSE handle(w, p, lines[1]),
                    p, Tail(lines))

OnData(w, p, chunk) == HandleEach(w, p, SplitLines(chunk))

\* A connect() that starts the request ids again from 1.
ConnectedResettingIds(w) ==
    [w EXCEPT !.client.proc = Len(w.procs) + 1,
              !.client.nextId = 1,
              !.procs = Append(@, [inbox |-> {}, stdout |-> <<>>, stdin |-> TRUE,
                                   listening |-> TRUE, answeredInit |-> FALSE,
                                   handled |-> {}])]

\* connect(): a process is spawned and becomes the client's handle, with the
\* 'data' listener on its stdout.
Connected(w) ==
    [w EXCEPT !.client.proc = Len(w.procs) + 1,
              !.procs = Append(@, [inbox |-> {}, stdout |-> <<>>, stdin |-> TRUE,
                                   listening |-> TRUE, answeredInit |-> FALSE,
                                   handled |-> {}])]

\* The rejections disconnect() makes: every pending entry's timer is cleared
\* and its reject callback invoked.
RECURSIVE RejectAll(_, _)
RejectAll(w, ids) ==
    IF ids = {} THEN w
    ELSE LET id == CHOOSE x \in ids : \A y \in ids : x <= y
         IN  RejectAll(PendingReject(w, w.client.pending[id], "client closed"),
                       ids \ {id})

\* A disconnect() that rejects the pending entries and leaves them in the map.
DisconnectedKeepingPending(w) ==
    LET p  == w.client.proc
        w1 == IF p = 0 THEN w
              ELSE [w EXCEPT !.procs[p].listening = FALSE,
                             !.procs[p].stdin = FALSE,
                             !.procs[p].inbox = {},
                             !.procs[p].stdout = <<>>,
                             !.client.proc = 0]
        w2 == RejectAll(w1, DOMAIN w1.client.pending)
    IN  [w2 EXCEPT !.client.initialized = FALSE]

\* A disconnect() that leaves the initialized flag as it is.
DisconnectedKeepingInitialized(w) ==
    LET p  == w.client.proc
        w1 == IF p = 0 THEN w
              ELSE [w EXCEPT !.procs[p].listening = FALSE,
                             !.procs[p].stdin = FALSE,
                             !.procs[p].inbox = {},
                             !.procs[p].stdout = <<>>,
                             !.client.proc = 0]
        w2 == RejectAll(w1, DOMAIN w1.client.pending)
    IN  [w2 EXCEPT !.client.pending = <<>>]

\* disconnect(): the listeners of the attached process are removed, its stdin
\* ended and the process killed, the handle set to null, so that what the
\* process has read or written and was not delivered is lost; then every
\* pending entry is rejected, the map cleared and the initialized flag reset.
Disconnected(w) ==
    LET p  == w.client.proc
        w1 == IF p = 0 THEN w
              ELSE [w EXCEPT !.procs[p].listening = FALSE,
                             !.procs[p].stdin = FALSE,
                             !.procs[p].inbox = {},
                             !.procs[p].stdout = <<>>,
                             !.client.proc = 0]
        w2 == RejectAll(w1, DOMAIN w1.client.pending)
    IN  [w2 EXCEPT !.client.pending = <<>>, !.client.initialized = FALSE]

\* An rpc that arms no timer for the request it wrote.
rpcWithoutTimer(w, method, cont, params) ==
    LET c == w.client
        rejected(id, reason) ==
            Promise(id, method, cont, 0, "rejected", reason, FALSE)
    IN  IF c.proc = 0 \/ ~w.procs[c.proc].stdin
        THEN [w EXCEPT !.promises =
                 Append(@, rejected(0, "not connected or stdin closed"))]
        ELSE IF params = "array"
        THEN [w EXCEPT !.client.nextId = @ + 1,
                       !.promises = Append(@, rejected(c.nextId,
                           "params must be an object or undefined"))]
        ELSE IF params = "circular"
        THEN [w EXCEPT !.client.nextId = @ + 1,
                       !.promises = Append(@, rejected(c.nextId, "write failed"))]
        ELSE [w EXCEPT !.client.nextId = @ + 1,
                       !.client.pending = MapSet(@, c.nextId, Len(w.promises) + 1),
                       !.procs[c.proc].inbox =
                           @ \cup {[id |-> c.nextId, method |-> method]},
                       !.promises = Append(@, Promise(c.nextId, method, cont,
                                               c.proc, "pending", "", FALSE))]

\* rpc(method, params), called by cont: rejected at once when there is no
\* process or its stdin is closed; else an id is taken, and the call is
\* rejected when the params are not an object ("array"), or when writing the
\* request throws ("circular": JSON.stringify fails), which removes the entry
\* just added; else the request is written, the entry stays and the
\* 10-second timer is armed.
rpc(w, method, cont, params) ==
    LET c == w.client
        rejected(id, reason) ==
            Promise(id, method, cont, 0, "rejected", reason, FALSE)
    IN  IF c.proc = 0 \/ ~w.procs[c.proc].stdin
        THEN [w EXCEPT !.promises =
                 Append(@, rejected(0, "not connected or stdin closed"))]
        ELSE IF params = "array"
        THEN [w EXCEPT !.client.nextId = @ + 1,
                       !.promises = Append(@, rejected(c.nextId,
                           "params must be an object or undefined"))]
        ELSE IF params = "circular"
        THEN [w EXCEPT !.client.nextId = @ + 1,
                       !.promises = Append(@, rejected(c.nextId, "write failed"))]
        ELSE [w EXCEPT !.client.nextId = @ + 1,
                       !.client.pending = MapSet(@, c.nextId, Len(w.promises) + 1),
                       !.procs[c.proc].inbox =
                           @ \cup {[id |-> c.nextId, method |-> method]},
                       !.promises = Append(@, Promise(c.nextId, method, cont,
                                               c.proc, "pending", "", TRUE))]

\* The callback of a request's timer: when the id still has an entry, the
\* entry is removed and rejected.
TimedOut(w, k) ==
    LET id == w.promises[k].id
        w1 == [w EXCEPT !.promises[k].timer = FALSE]
    IN  IF id \notin DOMAIN w.client.pending THEN w1
        ELSE PendingReject([w1 EXCEPT !.client.pending = MapDelete(@, id)],
                           w.client.pending[id], "timed out after 10s")

-----------------------------------------------------------------------------
(* The state machine.  host is the machine the process runs on, clock its  *)
(* system clock, srv the TimeServer instances and call, per instance, the  *)
(* call in progress: idle, past its argument checks ("validated", before   *)
(* it reads the clock) or returned ("done", with its result and error).    *)

\* The number of times the system clock advances by an hour in a run.
MaxTicks == 1

\* The instants a run starts at: an hour before 2025 begins in UTC, an hour
\* before each of America/New_York's transitions of 2025, and the 17th of May
\* 2025 at 14:30 UTC.
Epochs == {1735686000, 1741500000, 1747492200, 1762059600}

Hosts == {[zone |-> "UTC"], [zone |-> "Asia/Tokyo"]}

\* Values of the --local-timezone flag; the empty one is the flag's default.
LocalTimezoneFlags == {"", "UTC", "America/New_York"}

\* Zone identifiers callers pass.
InputZones ==
    {"", "UTC", "America/New_York", "Asia/Tokyo", "Asia/Kolkata",
     "Asia/Kathmandu", "Australia/Sydney", "Invalid/Timezone", "../UTC",
     "Local"}

\* Time arguments callers pass.
InputTimes ==
    { <<"1", "5", ":", "3", "0">>, <<"0", "0", ":", "0", "0">>,
      <<"2", "3", ":", "5", "9">>, <<"0", "2", ":", "3", "0">>,
      <<"0", "1", ":", "3", "0">>, <<"9", ":", "5">>,
      <<"2", "5", ":", "0", "0">>, <<"1", "2", ":", "6", "0">>,
      <<"1", "2", "3", "0">>, <<"1", "2", ":", "3", "0", ":", "0", "0">>,
      <<>>, <<"a", "b", ":", "c", "d">>, <<"1", "2", ":", "3", "x">>,
      <<"1", "a", ":", "3", "0">>, <<" ", "7", ":", "0", "0">>,
      <<"-", "1", ":", "0", "0">>, <<"1", "2", ":">>, <<":", "3", "0">>,
      <<"1", "_", "2", ":", "0", "0">> }

\* Times tried with every pair of zones: an afternoon time, midnight, and
\* the times America/New_York skips and repeats on its transition days.
ZoneTimes ==
    { <<"1", "5", ":", "3", "0">>, <<"0", "0", ":", "0", "0">>,
      <<"0", "2", ":", "3", "0">>, <<"0", "1", ":", "3", "0">> }

\* The arguments of ConvertTime callers pass: every pair of zones with the
\* times above, every time with two pairs of zones, and malformed times with
\* unknown zones.
ConvertInputs ==
    (InputZones \X ZoneTimes \X InputZones)
    \cup ({"UTC"} \X InputTimes \X {"Asia/Tokyo", ""})
    \cup ({"UTC", "Invalid/Timezone"}
          \X { <<"2", "5", ":", "0", "0">>, <<"1", "2", "3", "0">>,
               <<"a", "b", ":", "c", "d">> }
          \X {"Invalid/Timezone"})

\* Expressions callers pass to ParseNatural.
InputExpressions == {"tomorrow at 9:30am", "this is not a date at all", "at 99pm"}

Idle ==
    [pc |-> "idle", op |-> "", timezone |-> "", time |-> <<>>, target |-> "",
     expression |-> "", read |-> FALSE, now |-> 0,
     res |-> ZeroTimeResult, conv |-> ZeroConversionResult, err |-> <<>>]

Servers == DOMAIN srv

InitWith(ids, flags) ==
    /\ host \in Hosts
    /\ clock \in Epochs
    /\ srv \in [ids -> {NewTimeServer(f) : f \in flags}]
    /\ call = [i \in ids |-> Idle]
    /\ client = NewMCPClient
    /\ procs = <<>>
    /\ promises = <<>>

Init == InitWith({1}, LocalTimezoneFlags)

\* The system clock advances.
Tick ==
    /\ \E e \in Epochs : e <= clock /\ clock + 3600 <= e + MaxTicks * 3600
    /\ clock' = clock + 3600
    /\ UNCHANGED <<host, srv, call, clientVars>>

\* A GetCurrentTime that stores the zone it was given in the server.
BeginGetCurrentTimeStoringZone(i, zones) ==
    /\ call[i].pc = "idle"
    /\ \E timezone \in zones :
         \E r \in {GetCurrentTimeResolve(srv[i], timezone)} :
             /\ call' = [call EXCEPT ![i] =
                  [Idle EXCEPT !.pc = IF r.err # <<>> THEN "done" ELSE "validated",
                               !.op = "GetCurrentTime",
                               !.timezone = timezone,
                               !.err = r.err]]
             /\ srv' = [srv EXCEPT ![i].localTimezone = r.timezone]
    /\ UNCHANGED <<host, clock, clientVars>>

\* A call of GetCurrentTime up to its check of the zone.
BeginGetCurrentTime(i, zones) ==
    /\ call[i].pc = "idle"
    /\ \E timezone \in zones :
         \E r \in {GetCurrentTimeResolve(srv[i], timezone)} :
             call' = [call EXCEPT ![i] =
                  [Idle EXCEPT !.pc = IF r.err # <<>> THEN "done" ELSE "validated",
                               !.op = "GetCurrentTime",
                               !.timezone = timezone,
                               !.err = r.err]]
    /\ UNCHANGED <<host, clock, srv, clientVars>>

\* The rest of GetCurrentTime: it reads time.Now() and returns.
FinishGetCurrentTime(i) ==
    /\ call[i].pc = "validated"
    /\ call[i].op = "GetCurrentTime"
    /\ \E r \in {GetCurrentTimeResolve(srv[i], call[i].timezone)}, now \in {TimeNow} :
         call' = [call EXCEPT ![i].pc = "done",
                              ![i].read = TRUE,
                              ![i].now = now.unix,
                              ![i].res = GetCurrentTimeResult(r, now)]
    /\ UNCHANGED <<host, clock, srv, clientVars>>

\* A call of ConvertTime up to its checks of the zones and of the time.
BeginConvertTime(i, inputs) ==
    /\ call[i].pc = "idle"
    /\ \E in \in inputs :
         \E v \in {ConvertTimeParse(srv[i], in[1], in[2], in[3])} :
             call' = [call EXCEPT ![i] =
                  [Idle EXCEPT !.pc = IF v.err # <<>> THEN "done" ELSE "validated",
                               !.op = "ConvertTime",
                               !.timezone = in[1],
                               !.time = in[2],
                               !.target = in[3],
                               !.err = v.err]]
    /\ UNCHANGED <<host, clock, srv, clientVars>>

\* A ConvertTime that leaves its result in a buffer every call returns from.
FinishConvertTimeIntoSharedBuffer(i) ==
    /\ call[i].pc = "validated"
    /\ call[i].op = "ConvertTime"
    /\ \E v \in {ConvertTimeParse(srv[i], call[i].timezone, call[i].time,
                                  call[i].target)}, now \in {TimeNow} :
         \E conv \in {ConvertTimeResult(v, now)} :
           call' = [j \in Servers |->
                      IF j = i
                      THEN [call[j] EXCEPT !.pc = "done", !.read = TRUE,
                                           !.now = now.unix, !.conv = conv]
                      ELSE [call[j] EXCEPT !.conv = conv]]
    /\ UNCHANGED <<host, clock, srv, clientVars>>

\* The rest of ConvertTime: it reads time.Now() and returns.
FinishConvertTime(i) ==
    /\ call[i].pc = "validated"
    /\ call[i].op = "ConvertTime"
    /\ \E v \in {ConvertTimeParse(srv[i], call[i].timezone, call[i].time,
                                  call[i].target)}, now \in {TimeNow} :
         call' = [call EXCEPT ![i].pc = "done",
                              ![i].read = TRUE,
                              ![i].now = now.unix,
                              ![i].conv = ConvertTimeResult(v, now)]
    /\ UNCHANGED <<host, clock, srv, clientVars>>

\* A call of ParseNatural up to its check of the zone.
BeginParseNatural(i, expressions, zones) ==
    /\ call[i].pc = "idle"
    /\ \E expression \in expressions, timezone \in zones :
         \E r \in {ParseNaturalResolve(srv[i], timezone)} :
             call' = [call EXCEPT ![i] =
                  [Idle EXCEPT !.pc = IF r.err # <<>> THEN "done" ELSE "validated",
                               !.op = "ParseNatural",
                               !.timezone = timezone,
                               !.expression = expression,
                               !.err = r.err]]
    /\ UNCHANGED <<host, clock, srv, clientVars>>

\* The rest of ParseNatural: it reads s.nowFunc(), parses and returns.
FinishParseNatural(i) ==
    /\ call[i].pc = "validated"
    /\ call[i].op = "ParseNatural"
    /\ \E r \in {ParseNaturalResolve(srv[i], call[i].timezone)},
          now \in {NowFunc(srv[i])} :
         \E out \in {ParseNaturalResult(r, call[i].expression, now)} :
           call' = [call EXCEPT ![i].pc = "done",
                                ![i].read = TRUE,
                                ![i].now = now.unix,
                                ![i].res = out.res,
                                ![i].err = out.err]
    /\ UNCHANGED <<host, clock, srv, clientVars>>

\* The string parameters the tool handlers read from the argument map, in
\* the order they read them.
ToolParameters ==
    [get_current_time |-> <<"timezone">>,
     convert_time     |-> <<"source_timezone", "time", "target_timezone">>]

Tools == DOMAIN ToolParameters

\* The argument maps that lack a parameter of the tool, as the sets of the
\* parameters they hold.
IncompleteArguments(tool) ==
    {present \in SUBSET {ToolParameters[tool][k] : k \in 1..Len(ToolParameters[tool])} :
        \E k \in 1..Len(ToolParameters[tool]) : ToolParameters[tool][k] \notin present}

\* The error a handler returns for an argument map that lacks a parameter:
\* it names the first one the handler fails to read.
MissingParameter(tool, present) ==
    LET ps == ToolParameters[tool]
        k  == CHOOSE n \in 1..Len(ps) :
                  ps[n] \notin present /\ \A m \in 1..(n - 1) : ps[m] \in present
    IN  <<"missing required parameter: ", ps[k]>>

\* A tool handler called with an argument map that lacks a parameter: it
\* returns before it calls the TimeServer.
HandleIncompleteArguments(i, tools) ==
    /\ call[i].pc = "idle"
    /\ \E tool \in tools : \E present \in IncompleteArguments(tool) :
         call' = [call EXCEPT ![i] =
                     [Idle EXCEPT !.pc = "done",
                                  !.op = tool,
                                  !.err = MissingParameter(tool, present)]]
    /\ UNCHANGED <<host, clock, srv, clientVars>>

\* The caller takes the result; the instance is free for its next call.
Return(i) ==
    /\ call[i].pc = "done"
    /\ call' = [call EXCEPT ![i] = Idle]
    /\ UNCHANGED <<host, clock, srv, clientVars>>

Next ==
    \/ Tick
    \/ \E i \in Servers : HandleIncompleteArguments(i, Tools)
    \/ \E i \in Servers : BeginGetCurrentTime(i, InputZones)
    \/ \E i \in Servers : FinishGetCurrentTime(i)
    \/ \E i \in Servers : BeginConvertTime(i, ConvertInputs)
    \/ \E i \in Servers : FinishConvertTime(i)
    \/ \E i \in Servers : BeginParseNatural(i, InputExpressions, InputZones)
    \/ \E i \in Servers : FinishParseNatural(i)
    \/ \E i \in Servers : Return(i)

Spec == Init /\ [][Next]_vars

-----------------------------------------------------------------------------
(* Two instances, each with a clock of its own.                            *)

\* The fixed instants test fixtures inject, in America/New_York:
\* 2025-05-17T10:30 and 2025-03-08T10:00.
FixedNows == {1747492200, 1741446000}

ClockZones == {"America/New_York", "Invalid/Timezone"}

ClockInputs == {<<"America/New_York", <<"1", "5", ":", "3", "0">>, "Asia/Tokyo">>}

ClockExpressions == {"tomorrow at 9:30am"}

\* ts.forTesting_SetNowFunc(func() time.Time { return fixedNow }).
forTesting_SetNowFunc(i, nows) ==
    /\ \E n \in nows :
         srv' = [srv EXCEPT ![i].nowFunc =
                    [fixed |-> TRUE, unix |-> n, loc |-> "America/New_York"]]
    /\ UNCHANGED <<host, clock, call, clientVars>>

InitClocks == InitWith({1, 2}, {"UTC"})

NextClocks ==
    \/ Tick
    \/ \E i \in Servers : forTesting_SetNowFunc(i, FixedNows)
    \/ \E i \in Servers : BeginGetCurrentTime(i, ClockZones)
    \/ \E i \in Servers : FinishGetCurrentTime(i)
    \/ \E i \in Servers : BeginConvertTime(i, ClockInputs)
    \/ \E i \in Servers : FinishConvertTime(i)
    \/ \E i \in Servers : BeginParseNatural(i, ClockExpressions, ClockZones)
    \/ \E i \in Servers : FinishParseNatural(i)
    \/ \E i \in Servers : Return(i)

SpecClocks == InitClocks /\ [][NextClocks]_vars

-----------------------------------------------------------------------------
(* One instance with an injected clock, parsing expressions.               *)

ParseZones == {"", "UTC", "America/Chicago", "America/New_York", "Asia/Tokyo"}

ParseExpressions ==
    {"tomorrow at 9:30am", "next monday 2pm", "March 9, 2025, 1:59 AM",
     "March 9, 2025, 3:01 AM", "this is not a date at all"}

InitParse == InitWith({1}, {"UTC", "America/Chicago", "America/New_York"})

NextParse ==
    \/ Tick
    \/ \E i \in Servers : forTesting_SetNowFunc(i, FixedNows)
    \/ \E i \in Servers : BeginParseNatural(i, ParseExpressions, ParseZones)
    \/ \E i \in Servers : FinishParseNatural(i)
    \/ \E i \in Servers : Return(i)

SpecParse == InitParse /\ [][NextParse]_vars

-----------------------------------------------------------------------------
(* Two requests in progress on one TimeServer: srv holds, for each request, *)
(* the server its handler was registered with, the same for both.          *)

SharedZones == {"", "Asia/Tokyo", "Invalid/Timezone"}

SharedInputs ==
    {<<"America/New_York", <<"1", "5", ":", "3", "0">>, "Asia/Tokyo">>,
     <<"UTC", <<"2", "5", ":", "0", "0">>, "">>}

InitShared == InitWith({1, 2}, LocalTimezoneFlags) /\ srv[1] = srv[2]

NextShared ==
    \/ Tick
    \/ \E i \in Servers : HandleIncompleteArguments(i, Tools)
    \/ \E i \in Servers : BeginGetCurrentTime(i, SharedZones)
    \/ \E i \in Servers : FinishGetCurrentTime(i)
    \/ \E i \in Servers : BeginConvertTime(i, SharedInputs)
    \/ \E i \in Servers : FinishConvertTime(i)
    \/ \E i \in Servers : Return(i)

SpecShared == InitShared /\ [][NextShared]_vars

-----------------------------------------------------------------------------
(* Reading results back: what a returned string says.                      *)

Done(i, op) == call[i].pc = "done" /\ call[i].op = op

\* The operations of a TimeServer.
Operations == {"GetCurrentTime", "ConvertTime", "ParseNatural"}

\* The call returned a result and no error.
Succeeded(i, op) == Done(i, op) /\ call[i].err = <<>>

\* The identifier an argument stands for once an empty one is defaulted.
Defaulted(i, id) == IF id = "" THEN srv[i].localTimezone ELSE id

Resolves(id) == LoadLocation(id).err = <<>>

\* A message holds an identifier when it is one of the pieces of the message.
Mentions(err, id) == \E k \in 1..Len(err) : err[k] = id

AllDigits(s) == Len(s) > 0 /\ \A k \in 1..Len(s) : s[k] \in DigitChars

\* A decimal number with an optional sign, and its value.
IsNumber(s) ==
    IF Len(s) > 0 /\ s[1] \in {"+", "-"} THEN AllDigits(Tail(s)) ELSE AllDigits(s)

NumberValue(s) ==
    IF s[1] = "-" THEN -Atoi(Tail(s))
    ELSE IF s[1] = "+" THEN Atoi(Tail(s))
    ELSE Atoi(s)

\* The fields of a datetime "YYYY-MM-DDTHH:MM:SS" followed by "Z" or "+HH:MM".
DatetimeYear(dt) == Atoi(SubSeq(dt, 1, 4))

DatetimeOffset(dt) ==
    IF dt[20] = "Z" THEN 0
    ELSE (IF dt[20] = "-" THEN -1 ELSE 1)
         * (Atoi(SubSeq(dt, 21, 22)) * 3600 + Atoi(SubSeq(dt, 24, 25)) * 60)

\* The instant a datetime denotes.
DatetimeInstant(dt) ==
    DaysFromCivil(DatetimeYear(dt), Atoi(SubSeq(dt, 6, 7)), Atoi(SubSeq(dt, 9, 10)))
        * 86400
    + Atoi(SubSeq(dt, 12, 13)) * 3600 + Atoi(SubSeq(dt, 15, 16)) * 60
    + Atoi(SubSeq(dt, 18, 19)) - DatetimeOffset(dt)

\* The position of the first "." of a string, or 0.
DotAt(s) ==
    IF \E k \in 1..Len(s) : s[k] = "."
    THEN CHOOSE k \in 1..Len(s) : s[k] = "." /\ \A j \in 1..(k - 1) : s[j] # "."
    ELSE 0

\* A time difference is well formed when it is a sign, digits, optionally a
\* "." and one or two digits, and "h".
DifferenceWellFormed(td) ==
    /\ Len(td) >= 3
    /\ td[1] \in {"+", "-"}
    /\ td[Len(td)] = "h"
    /\ IF DotAt(td) = 0 THEN AllDigits(SubSeq(td, 2, Len(td) - 1))
       ELSE /\ AllDigits(SubSeq(td, 2, DotAt(td) - 1))
            /\ AllDigits(SubSeq(td, DotAt(td) + 1, Len(td) - 1))
            /\ Len(td) - 1 - DotAt(td) <= 2

\* The value of a well-formed time difference, in hundredths of an hour.
DifferenceHundredths(td) ==
    LET dot  == DotAt(td)
        int  == Atoi(SubSeq(td, 2, (IF dot = 0 THEN Len(td) ELSE dot) - 1))
        frac == IF dot = 0 THEN <<>> ELSE SubSeq(td, dot + 1, Len(td) - 1)
        hun  == IF Len(frac) = 0 THEN 0
                ELSE IF Len(frac) = 1 THEN 10 * Atoi(frac)
                ELSE Atoi(frac)
    IN  (IF td[1] = "-" THEN -1 ELSE 1) * (100 * int + hun)

\* The offset delta shown by the two datetimes of a conversion.
ShownDelta(conv) ==
    DatetimeOffset(conv.target.datetime) - DatetimeOffset(conv.source.datetime)

-----------------------------------------------------------------------------
(* Servers started without --local-timezone on hosts whose zone has no     *)
(* usable name.                                                            *)

UnnamedHosts == {[zone |-> z] : z \in DOMAIN UnnamedZones}

\* Zone identifiers callers pass to such a server.
HostZones == {"", "UTC", "Local"}

InitHosts ==
    /\ host \in UnnamedHosts
    /\ clock \in Epochs
    /\ srv = [i \in {1} |-> NewTimeServer("")]
    /\ call = [i \in {1} |-> Idle]
    /\ client = NewMCPClient
    /\ procs = <<>>
    /\ promises = <<>>

NextHosts ==
    \/ Tick
    \/ \E i \in Servers :
         \/ BeginGetCurrentTime(i, HostZones)
         \/ FinishGetCurrentTime(i)
         \/ Return(i)

SpecHosts == InitHosts /\ [][NextHosts]_vars

-----------------------------------------------------------------------------
(* The client and the processes it spawns.                                 *)

\* The number of processes a client spawns and of calls of rpc in a run.
MaxProcs == 2

MaxCalls == 2

\* What a caller passes as params: an object, something that is not an
\* object, an object JSON.stringify throws on.
Params == {"object", "array", "circular"}

World == [client |-> client, procs |-> procs, promises |-> promises]

Becomes(w) ==
    /\ client' = w.client
    /\ procs' = w.procs
    /\ promises' = w.promises

InitClient ==
    /\ host = [zone |-> "UTC"]
    /\ clock = 1747492200
    /\ srv = [i \in {1} |-> NewTimeServer("UTC")]
    /\ call = [i \in {1} |-> Idle]
    /\ client = NewMCPClient
    /\ procs = <<>>
    /\ promises = <<>>

connect ==
    /\ Len(procs) < MaxProcs
    /\ Becomes(Connected(World))
    /\ UNCHANGED serverVars

disconnect ==
    /\ Becomes(Disconnected(World))
    /\ UNCHANGED serverVars

\* rpc called directly.
CallRpc(params) ==
    /\ Len(promises) < MaxCalls
    /\ Becomes(rpc(World, "tools/list", "", params))
    /\ UNCHANGED serverVars

initialize ==
    /\ Len(promises) < MaxCalls
    /\ Becomes(rpc(World, "initialize", "initialize", "object"))
    /\ UNCHANGED serverVars

listTools ==
    /\ Len(promises) < MaxCalls
    /\ Becomes(rpc(World, "tools/list", "listTools", "object"))
    /\ UNCHANGED serverVars

\* callTool(name, args): rejected without a call of rpc when the client is
\* not initialized.
callTool(args) ==
    /\ Len(promises) < MaxCalls
    /\ IF ~client.initialized
       THEN /\ promises' = Append(promises,
                   Promise(0, "tools/call", "callTool", 0, "rejected",
                           "Client not initialized. Call initialize() first.",
                           FALSE))
            /\ UNCHANGED <<client, procs>>
       ELSE Becomes(rpc(World, "tools/call", "callTool",
                        <<"object", args>>[IF args = "circular" THEN 2 ELSE 1]))
    /\ UNCHANGED serverVars

\* A server process answers a request it has read, with a result or an error.
Answer(p, kind) ==
    /\ p \in DOMAIN procs
    /\ \E r \in procs[p].inbox :
         procs' = [procs EXCEPT
                     ![p].inbox = @ \ {r},
                     ![p].stdout = @ \o ResponseLine(r.id, kind),
                     ![p].answeredInit =
                         @ \/ (r.method = "initialize" /\ kind = "result")]
    /\ UNCHANGED <<serverVars, client, promises>>

\* A server process exits by itself: its stdin closes and nothing more is
\* answered.
exit(p) ==
    /\ p \in DOMAIN procs
    /\ procs[p].stdin
    /\ procs' = [procs EXCEPT ![p].stdin = FALSE, ![p].inbox = {}]
    /\ UNCHANGED <<serverVars, client, promises>>

\* A 'data' event of a process's stdout, with the first n bytes not
\* delivered yet as its chunk.
data(p, n) ==
    /\ p \in DOMAIN procs
    /\ procs[p].listening
    /\ n \in 1..Len(procs[p].stdout)
    /\ Becomes(OnData([World EXCEPT !.procs[p].stdout =
                                        SubSeq(@, n + 1, Len(@))],
                      p, SubSeq(procs[p].stdout, 1, n)))
    /\ UNCHANGED serverVars

\* The timer of a request fires.
timeout(k) ==
    /\ k \in DOMAIN promises
    /\ promises[k].timer
    /\ Becomes(TimedOut(World, k))
    /\ UNCHANGED serverVars

NextClient ==
    \/ connect
    \/ disconnect
    \/ initialize
    \/ listTools
    \/ \E args \in {"object", "circular"} : callTool(args)
    \/ \E params \in Params : CallRpc(params)
    \/ \E p \in 1..MaxProcs, kind \in {"result", "error"} : Answer(p, kind)
    \/ \E p \in 1..MaxProcs : exit(p)
    \/ \E p \in 1..MaxProcs, n \in 1..(3 * MaxCalls) : data(p, n)
    \/ \E k \in 1..MaxCalls : timeout(k)

SpecClient == InitClient /\ [][NextClient]_vars

\* Node's event loop runs the callback of every timer that is armed.
SpecClientLive ==
    SpecClient /\ \A k \in 1..MaxCalls : WF_vars(timeout(k))

-----------------------------------------------------------------------------
(* Claims.                                                                 *)

\* C1: a ConvertTime result whose offset difference is a whole number of
\* hours has a time_difference made of a sign, an integer and "h", with no
\* decimal part, and "+0h" when the difference is zero.
C1_WholeHoursHaveNoDecimals ==
    \A i \in Servers :
        Succeeded(i, "ConvertTime") /\ ShownDelta(call[i].conv) % 3600 = 0
        => LET td == call[i].conv.time_difference
           IN  /\ DifferenceWellFormed(td)
               /\ DotAt(td) = 0
               /\ (ShownDelta(call[i].conv) = 0 => td = <<"+", "0", "h">>)

\* C2: a ConvertTime result whose offset difference is not a whole number of
\* hours has a sign-prefixed time_difference with at most two decimal
\* digits, no trailing zero and no trailing "." before the "h".
C2_FractionsAreTrimmed ==
    \A i \in Servers :
        Succeeded(i, "ConvertTime") /\ ShownDelta(call[i].conv) % 3600 # 0
        => LET td == call[i].conv.time_difference
           IN  /\ DifferenceWellFormed(td)
               /\ td[Len(td) - 1] \notin {"0", "."}

\* C3: with both zones valid, a time whose hour segment or minute segment is
\* not purely a decimal number makes ConvertTime return an error and no
\* result.
C3_SegmentsParsedStrictly ==
    \A i \in Servers :
        LET parts == Split(call[i].time, ":")
        IN  /\ Done(i, "ConvertTime")
            /\ Resolves(Defaulted(i, call[i].timezone))
            /\ Resolves(Defaulted(i, call[i].target))
            /\ Len(parts) = 2
            /\ ~AllDigits(parts[1]) \/ ~AllDigits(parts[2])
            => call[i].err # <<>> /\ call[i].conv = ZeroConversionResult

\* C4: with both zones valid, ConvertTime returns an error and no result when
\* the time has not exactly two ":"-separated segments, or its hour is a
\* number outside 0..23, or its minute is a number outside 0..59.
C4_MalformedTimeRejected ==
    \A i \in Servers :
        LET parts == Split(call[i].time, ":")
        IN  /\ Done(i, "ConvertTime")
            /\ Resolves(Defaulted(i, call[i].timezone))
            /\ Resolves(Defaulted(i, call[i].target))
            /\ \/ Len(parts) # 2
               \/ IsNumber(parts[1]) /\ NumberValue(parts[1]) \notin 0..23
               \/ IsNumber(parts[2]) /\ NumberValue(parts[2]) \notin 0..59
            => call[i].err # <<>> /\ call[i].conv = ZeroConversionResult

\* C4 witness: each of "25:00", "12:60", "1230", "12:30:00" and "" is the time
\* of some call, and a call with the minute 60 has returned.
C4_Witness ==
    \E i \in Servers :
        /\ Done(i, "ConvertTime")
        /\ call[i].time = <<"1", "2", ":", "6", "0">>
        /\ Resolves(Defaulted(i, call[i].timezone))
        /\ Resolves(Defaulted(i, call[i].target))
        /\ call[i].err = <<"invalid minute: expected 0-59">>
        /\ { <<"2", "5", ":", "0", "0">>, <<"1", "2", "3", "0">>,
             <<"1", "2", ":", "3", "0", ":", "0", "0">>, <<>> } \subseteq InputTimes

\* The identifier a returned call found not to resolve: for ConvertTime the
\* source's when that does not resolve, else the target's.
Offending(i) ==
    IF call[i].op = "ConvertTime" /\ Resolves(Defaulted(i, call[i].timezone))
    THEN Defaulted(i, call[i].target)
    ELSE Defaulted(i, call[i].timezone)

\* C5: in every operation, a supplied or defaulted zone identifier that does
\* not resolve yields an error that holds that identifier, and no result.
C5_UnknownZoneIsNamed ==
    \A i \in Servers :
        call[i].pc = "done" /\ call[i].op \in Operations /\ ~Resolves(Offending(i))
        => /\ Mentions(call[i].err, Offending(i))
           /\ call[i].res = ZeroTimeResult
           /\ call[i].conv = ZeroConversionResult

\* C6: once a fixed instant is injected into an instance, every operation of
\* that instance that reads the time reads exactly that instant, whatever the
\* other instance holds or does.
C6_InjectedClockIsUsed ==
    [][\A i \in Servers :
          srv[i].nowFunc.fixed /\ ~call[i].read /\ call'[i].read
          => call'[i].now = srv[i].nowFunc.unix]_vars

\* The location a TimeResult's zone identifier resolves to.
LocOf(tr) == LoadLocation(tr.timezone).loc

\* The offset of the result's zone at local midnight of January 1 of the year
\* the result's datetime shows.
JanuaryOffset(tr) ==
    Lookup(LocOf(tr), Date(DatetimeYear(tr.datetime), 1, 1, 0, 0, 0, LocOf(tr)).unix).offset

FlagByJanuary(tr) == tr.is_dst = (DatetimeOffset(tr.datetime) # JanuaryOffset(tr))

C8_DifferenceIsOffsetDelta ==
    \A i \in Servers :
        Succeeded(i, "ConvertTime")
        => LET conv == call[i].conv
               at   == DatetimeInstant(conv.source.datetime)
           IN  /\ DifferenceWellFormed(conv.time_difference)
               /\ DatetimeInstant(conv.target.datetime) = at
               /\ DifferenceHundredths(conv.time_difference) * 36
                  = Lookup(LocOf(conv.target), at).offset
                    - Lookup(LocOf(conv.source), at).offset

\* C8 witness: a conversion whose target falls on another calendar day than
\* its source, so that the hours of day differ by another amount than the
\* offsets.
C8_Witness ==
    \E i \in Servers :
        /\ Succeeded(i, "ConvertTime")
        /\ call[i].conv.source.timezone = "America/New_York"
        /\ call[i].conv.target.timezone = "Asia/Tokyo"
        /\ SubSeq(call[i].conv.source.datetime, 1, 10)
           # SubSeq(call[i].conv.target.datetime, 1, 10)
        /\ call[i].conv.time_difference = <<"+", "1", "3", ".", "0", "h">>

\* The conversion with the zones exchanged, for the same time argument and
\* the same reading of the clock.
Exchanged(i) ==
    With(ConvertTimeParse(srv[i], call[i].target, call[i].time, call[i].timezone),
         LAMBDA v : ConvertTimeResult(v, [unix |-> call[i].now, loc |-> host.zone]))

Negated(conv, back) ==
    DifferenceHundredths(conv.time_difference)
        = -DifferenceHundredths(back.time_difference)

\* Neither zone changes its offset between the instant the one conversion
\* constructs and the instant the exchanged one constructs.
SameOffsetsAtBoth(conv, back) ==
    LET at   == DatetimeInstant(conv.source.datetime)
        atBk == DatetimeInstant(back.source.datetime)
    IN  /\ Lookup(LocOf(conv.source), at).offset
           = Lookup(LocOf(conv.source), atBk).offset
        /\ Lookup(LocOf(conv.target), at).offset
           = Lookup(LocOf(conv.target), atBk).offset

\* C9 as stated: for all zones A and B and every well-formed time, with the
\* same reading of the clock, the time_difference of convert_time(A, hhmm, B)
\* is the exact negation of the one of convert_time(B, hhmm, A).
C9_ExchangeNegates ==
    \A i \in Servers :
        Succeeded(i, "ConvertTime")
        => \E back \in {Exchanged(i)} : Negated(call[i].conv, back)

\* C9 as amended: the time_difference of convert_time(A, hhmm, B) is the exact
\* negation of the one of convert_time(B, hhmm, A) whenever neither zone
\* changes its offset between the two instants the two calls construct.
C9_ExchangeNegatesAtStableOffsets ==
    \A i \in Servers :
        Succeeded(i, "ConvertTime")
        => \E back \in {Exchanged(i)} :
               SameOffsetsAtBoth(call[i].conv, back) => Negated(call[i].conv, back)

\* C9 witness: America/New_York to Asia/Tokyo away from any transition, thirteen
\* hours one way and minus thirteen the other.
C9_Witness ==
    \E i \in Servers :
        /\ Succeeded(i, "ConvertTime")
        /\ call[i].conv.source.timezone = "America/New_York"
        /\ call[i].conv.target.timezone = "Asia/Tokyo"
        /\ \E back \in {Exchanged(i)} :
               /\ SameOffsetsAtBoth(call[i].conv, back)
               /\ call[i].conv.time_difference = <<"+", "1", "3", ".", "0", "h">>
               /\ back.time_difference = <<"-", "1", "3", ".", "0", "h">>

\* C10: convert_time(Z, hhmm, Z) returns the time_difference "+0h", the same
\* datetime for source and target, and equal is_dst flags.
C10_SameZoneRoundTrip ==
    \A i \in Servers :
        /\ Succeeded(i, "ConvertTime")
        /\ Defaulted(i, call[i].timezone) = Defaulted(i, call[i].target)
        => /\ call[i].conv.time_difference = <<"+", "0", "h">>
           /\ call[i].conv.source.datetime = call[i].conv.target.datetime
           /\ call[i].conv.source.is_dst = call[i].conv.target.is_dst

\* The wall clock a datetime shows, in seconds of the calendar.
WallSeconds(dt) == DatetimeInstant(dt) + DatetimeOffset(dt)

\* C11: in every successful ConvertTime result the target's wall-clock date
\* and time are the source's shifted by the reported difference, also across
\* a calendar-day or year boundary, so both denote one instant.
C11_TargetIsSourceShifted ==
    \A i \in Servers :
        Succeeded(i, "ConvertTime")
        => LET conv == call[i].conv
           IN  (WallSeconds(conv.target.datetime) - WallSeconds(conv.source.datetime))
                   * 100
               = DifferenceHundredths(conv.time_difference) * 3600

\* C11 witness: 15:30 on the last day of 2024 in America/New_York is 05:30 on
\* the first day of 2025 in Asia/Tokyo.
C11_Witness ==
    \E i \in Servers :
        /\ Succeeded(i, "ConvertTime")
        /\ call[i].time = <<"1", "5", ":", "3", "0">>
        /\ call[i].conv.source.timezone = "America/New_York"
        /\ SubSeq(call[i].conv.source.datetime, 1, 16)
           = <<"2", "0", "2", "4", "-", "1", "2", "-", "3", "1", "T", "1", "5", ":", "3", "0">>
        /\ SubSeq(call[i].conv.target.datetime, 1, 16)
           = <<"2", "0", "2", "5", "-", "0", "1", "-", "0", "1", "T", "0", "5", ":", "3", "0">>
        /\ call[i].conv.target.timezone = "Asia/Tokyo"

\* No instant of the location shows the wall clock: it lies in a gap.
InGap(loc, wall) ==
    ~\E k \in 1..Len(tzdata[loc]) :
        /\ tzdata[loc][k].start <= wall - tzdata[loc][k].offset
        /\ wall - tzdata[loc][k].offset < tzdata[loc][k].end

\* The wall clock made of the date the host's clock showed at the reading and
\* of the hour and minute of the argument.
RequestedWall(i) ==
    LET d     == Wall([unix |-> call[i].now, loc |-> host.zone])
        parts == Split(call[i].time, ":")
    IN  DaysFromCivil(d.year, d.month, d.day) * 86400
        + NumberValue(parts[1]) * 3600 + NumberValue(parts[2]) * 60

WellFormedTime(t) ==
    Len(Split(t, ":")) = 2 /\ AllDigits(Split(t, ":")[1]) /\ AllDigits(Split(t, ":")[2])

C12_GapOccurs ==
    \E i \in Servers :
        /\ Succeeded(i, "ConvertTime")
        /\ WellFormedTime(call[i].time)
        /\ InGap(LocOf(call[i].conv.source), RequestedWall(i))

\* The TimeResults a returned call carries.
Returned(i) ==
    IF ~(call[i].pc = "done" /\ call[i].op \in Operations /\ call[i].err = <<>>) THEN {}
    ELSE IF call[i].op = "ConvertTime" THEN {call[i].conv.source, call[i].conv.target}
    ELSE {call[i].res}

\* The suffix of a datetime states the offset of its zone at its instant.
StatesZoneOffset(tr) ==
    /\ Len(tr.datetime) \in {20, 25}
    /\ (Len(tr.datetime) = 20) = (tr.datetime[20] = "Z")
    /\ DatetimeOffset(tr.datetime)
       = Lookup(LocOf(tr), DatetimeInstant(tr.datetime)).offset

\* C13 as stated: every datetime returned by any operation ends in a numeric
\* offset equal to the zone's offset at that instant and never in "Z"; for an
\* offset of zero it ends in "+00:00".
C13_OffsetAlwaysNumeric ==
    \A i \in Servers : \A tr \in Returned(i) :
        /\ StatesZoneOffset(tr)
        /\ tr.datetime[20] \in {"+", "-"}

\* C13 as amended: every datetime returned by any operation states the offset
\* of the zone at that instant in the RFC 3339 form: numeric when the offset
\* is not zero, and "Z" when it is zero; GetCurrentTime's is the instant read
\* from the clock.
C13_OffsetInRFC3339Form ==
    \A i \in Servers : \A tr \in Returned(i) :
        /\ StatesZoneOffset(tr)
        /\ (tr.datetime[20] = "Z") = (Lookup(LocOf(tr), DatetimeInstant(tr.datetime)).offset = 0)
        /\ call[i].op = "GetCurrentTime" => DatetimeInstant(tr.datetime) = call[i].now

\* C13 witness: a conversion from UTC, shown with "Z", to Asia/Kathmandu, shown
\* with "+05:45".
C13_Witness ==
    \E i \in Servers :
        /\ Succeeded(i, "ConvertTime")
        /\ call[i].conv.source.timezone = "UTC"
        /\ call[i].conv.source.datetime[20] = "Z"
        /\ call[i].conv.target.timezone = "Asia/Kathmandu"
        /\ SubSeq(call[i].conv.target.datetime, 20, 25) = <<"+", "0", "5", ":", "4", "5">>

\* What the operation of call i returns for other zone arguments, the other
\* arguments and the reading of the clock being those of call i.
AsIfCalledWith(i, timezone, target) ==
    LET now  == [unix |-> call[i].now, loc |-> host.zone]
        out(res, conv, err) == [res |-> res, conv |-> conv, err |-> err]
    IN  CASE call[i].op = "GetCurrentTime" ->
               With(GetCurrentTimeResolve(srv[i], timezone), LAMBDA r :
                   IF r.err # <<>> THEN out(ZeroTimeResult, ZeroConversionResult, r.err)
                   ELSE out(GetCurrentTimeResult(r, now), ZeroConversionResult, <<>>))
          [] call[i].op = "ConvertTime" ->
               With(ConvertTimeParse(srv[i], timezone, call[i].time, target), LAMBDA v :
                   IF v.err # <<>> THEN out(ZeroTimeResult, ZeroConversionResult, v.err)
                   ELSE out(ZeroTimeResult, ConvertTimeResult(v, now), <<>>))
          [] OTHER ->
               With(ParseNaturalResolve(srv[i], timezone), LAMBDA r :
                   IF r.err # <<>> THEN out(ZeroTimeResult, ZeroConversionResult, r.err)
                   ELSE With(ParseNaturalResult(r, call[i].expression, now), LAMBDA o :
                            out(o.res, ZeroConversionResult, o.err)))

Outcome(i) == [res |-> call[i].res, conv |-> call[i].conv, err |-> call[i].err]

\* C14: a call with an empty zone identifier returns what the same call with
\* the configured local zone in its place returns at the same reading of the
\* clock, for each zone argument on its own; a result for an empty identifier
\* names the local zone.
C14_EmptyZoneIsLocalZone ==
    \A i \in Servers :
        /\ call[i].pc = "done"
        /\ call[i].op \in Operations
        /\ call[i].timezone = "" \/ (call[i].op = "ConvertTime" /\ call[i].target = "")
        => /\ \E o \in {AsIfCalledWith(i, Defaulted(i, call[i].timezone),
                                          Defaulted(i, call[i].target))} :
                  Outcome(i) = o
           /\ (call[i].err = <<>> /\ call[i].timezone = "" /\ call[i].op # "ConvertTime")
              => call[i].res.timezone = srv[i].localTimezone

\* C14 witness: on a server configured with America/New_York, a conversion
\* from the empty identifier to Asia/Tokyo, returned as one from
\* America/New_York.
C14_Witness ==
    \E i \in Servers :
        /\ Succeeded(i, "ConvertTime")
        /\ srv[i].localTimezone = "America/New_York"
        /\ call[i].timezone = ""
        /\ call[i].target = "Asia/Tokyo"
        /\ call[i].conv.source.timezone = "America/New_York"
        /\ call[i].conv.time_difference = <<"+", "1", "3", ".", "0", "h">>

\* C15: a call of the get_current_time tool whose argument map has no
\* "timezone" entry returns the current time in the server's local zone and
\* no error.
C15_TimezoneArgumentIsOptional ==
    \A i \in Servers :
        Done(i, "get_current_time")
        => call[i].err = <<>> /\ call[i].res.timezone = srv[i].localTimezone

\* The engine resolves nothing for the expression of call i: no match, or an
\* error.
EngineFails(i) ==
    ~WhenParse(call[i].expression, [unix |-> call[i].now, loc |-> "UTC"]).ok

\* C16: ParseNatural with a valid zone returns an error and no result when the
\* engine reports an error or no match; the error holds the expression
\* verbatim between "could not parse expression '" and "'", and no instant,
\* that of now included, is returned in its place.
C16_UnparseableExpressionFails ==
    \A i \in Servers :
        /\ Done(i, "ParseNatural")
        /\ Resolves(Defaulted(i, call[i].timezone))
        /\ EngineFails(i)
        => /\ Len(call[i].err) >= 3
           /\ SubSeq(call[i].err, 1, 3)
              = <<"could not parse expression '", call[i].expression, "'">>
           /\ call[i].res.datetime = <<>>
           /\ call[i].res.timezone = ""

\* C16 witness: "this is not a date at all" in UTC has failed with exactly
\* that text in the message.
C16_Witness ==
    \E i \in Servers :
        /\ Done(i, "ParseNatural")
        /\ call[i].timezone = "UTC"
        /\ call[i].read
        /\ call[i].err = <<"could not parse expression '",
                           "this is not a date at all", "'">>

\* The engine's own error is wrapped after the expression.
C16_EngineErrorWrapped ==
    \E i \in Servers :
        /\ Done(i, "ParseNatural")
        /\ call[i].err = <<"could not parse expression '", "at 99pm", "'",
                           ": ", "hour out of range">>

\* The zone a returned ParseNatural call resolved, and the wall clock its
\* reading of the clock shows there, in seconds of the calendar.
ParsedIn(i) == LoadLocation(Defaulted(i, call[i].timezone)).loc

ReferenceWall(i) == call[i].now + Lookup(ParsedIn(i), call[i].now).offset

\* C17: the result of ParseNatural is decided by the expression, the zone and
\* the instant read from the instance's clock: "tomorrow at 9:30am" is 09:30
\* on the day after the date the reading shows in the resolved zone, in that
\* zone; read at 2025-05-17T10:30:00-04:00 it is 2025-05-18T09:30:00 in UTC,
\* and "next monday 2pm" in America/Chicago is 2025-05-19T14:00:00 there,
\* whatever the system clock and the host's zone.
C17_ParseIsRelativeToInjectedNow ==
    \A i \in Servers :
        Succeeded(i, "ParseNatural")
        => /\ call[i].res.timezone = Defaulted(i, call[i].timezone)
           /\ DatetimeOffset(call[i].res.datetime)
              = Lookup(ParsedIn(i), DatetimeInstant(call[i].res.datetime)).offset
           /\ call[i].expression = "tomorrow at 9:30am"
              => WallSeconds(call[i].res.datetime)
                 = (ReferenceWall(i) \div 86400 + 1) * 86400 + 9 * 3600 + 30 * 60
           /\ (call[i].now = 1747492200 /\ call[i].expression = "tomorrow at 9:30am"
               /\ ParsedIn(i) = "UTC")
              => call[i].res.datetime
                 = <<"2", "0", "2", "5", "-", "0", "5", "-", "1", "8", "T",
                     "0", "9", ":", "3", "0", ":", "0", "0", "Z">>
           /\ (call[i].now = 1747492200 /\ call[i].expression = "next monday 2pm"
               /\ ParsedIn(i) = "America/Chicago")
              => call[i].res.datetime
                 = <<"2", "0", "2", "5", "-", "0", "5", "-", "1", "9", "T",
                     "1", "4", ":", "0", "0", ":", "0", "0", "-", "0", "5", ":", "0", "0">>

\* C17 witness: with the instant 2025-03-08T10:00 America/New_York injected,
\* and another system clock, "tomorrow at 9:30am" in Asia/Tokyo, where it is
\* already 9 March, is 10 March.
C17_Witness ==
    \E i \in Servers :
        /\ Succeeded(i, "ParseNatural")
        /\ srv[i].nowFunc.fixed
        /\ call[i].now = 1741446000
        /\ clock # call[i].now
        /\ call[i].expression = "tomorrow at 9:30am"
        /\ call[i].timezone = "Asia/Tokyo"
        /\ call[i].res.datetime
           = <<"2", "0", "2", "5", "-", "0", "3", "-", "1", "0", "T",
               "0", "9", ":", "3", "0", ":", "0", "0", "+", "0", "9", ":", "0", "0">>

\* C17 witness of the two cases of the test: both results are returned.
C17_TestCases ==
    \E i \in Servers :
        /\ Succeeded(i, "ParseNatural")
        /\ call[i].now = 1747492200
        /\ call[i].expression = "next monday 2pm"
        /\ call[i].timezone = "America/Chicago"

\* C18: in America/New_York, ParseNatural of "March 9, 2025, 1:59 AM" returns
\* 01:59 of that day with is_dst false, and of "March 9, 2025, 3:01 AM" 03:01
\* of that day with is_dst true and an offset one hour greater than the
\* first's.
C18_SpringForwardIsCrossed ==
    \A i \in Servers :
        Succeeded(i, "ParseNatural") /\ ParsedIn(i) = "America/New_York"
        => /\ call[i].expression = "March 9, 2025, 1:59 AM"
              => /\ call[i].res.datetime
                    = <<"2", "0", "2", "5", "-", "0", "3", "-", "0", "9", "T", "0", "1",
                        ":", "5", "9", ":", "0", "0", "-", "0", "5", ":", "0", "0">>
                 /\ ~call[i].res.is_dst
           /\ call[i].expression = "March 9, 2025, 3:01 AM"
              => /\ SubSeq(call[i].res.datetime, 1, 19)
                    = <<"2", "0", "2", "5", "-", "0", "3", "-", "0", "9", "T", "0", "3",
                        ":", "0", "1", ":", "0", "0">>
                 /\ DatetimeOffset(call[i].res.datetime) = 3600 - 5 * 3600
                 /\ call[i].res.is_dst

\* C18 witness: with 2025-03-08T10:00 America/New_York injected, 03:01 of
\* 9 March is returned in daylight time.
C18_Witness ==
    \E i \in Servers :
        /\ Succeeded(i, "ParseNatural")
        /\ srv[i].nowFunc.fixed
        /\ call[i].now = 1741446000
        /\ call[i].timezone = "America/New_York"
        /\ call[i].expression = "March 9, 2025, 3:01 AM"
        /\ call[i].res.is_dst
        /\ SubSeq(call[i].res.datetime, 20, 25) = <<"-", "0", "4", ":", "0", "0">>

\* Nothing of a TimeResult is filled in.
EmptyResult(tr) == tr.timezone = "" /\ tr.datetime = <<>> /\ ~tr.is_dst

\* C19: whenever GetCurrentTime, ConvertTime or a tool handler returns an
\* error, for a missing argument, an unknown zone or an invalid time, nothing
\* of a result is returned with it.
C19_NoResultWithAnError ==
    \A i \in Servers :
        /\ call[i].pc = "done"
        /\ call[i].op \in {"GetCurrentTime", "ConvertTime"} \cup Tools
        /\ call[i].err # <<>>
        => /\ EmptyResult(call[i].res)
           /\ EmptyResult(call[i].conv.source)
           /\ EmptyResult(call[i].conv.target)
           /\ call[i].conv.time_difference = <<>>

\* C19 witness: a conversion from a valid zone to an unknown one has returned
\* its error.
C19_Witness ==
    \E i \in Servers :
        /\ Done(i, "ConvertTime")
        /\ call[i].timezone = "America/New_York"
        /\ call[i].target = "Invalid/Timezone"
        /\ call[i].err = <<"invalid target timezone: ", "unknown time zone ",
                           "Invalid/Timezone">>
        /\ EmptyResult(call[i].conv.source)

\* The call of instance i fails in this step, or is a failed call the caller
\* takes the error of.
Fails(i) ==
    \/ call[i].pc = "idle" /\ call'[i].pc = "done" /\ call'[i].err # <<>>
    \/ call[i].pc = "done" /\ call[i].err # <<>> /\ call'[i] # call[i]

\* C20: no call changes the configured local zone of a TimeServer, its clock
\* or the host's zone; a call that fails, for an unknown zone, an invalid
\* time or a missing argument, changes nothing but its own outcome, and once
\* the error is taken the instance is as it was before the call, so that a
\* later call returns what it would have returned without the failed one.
C20_FailedCallsLeaveNoTrace ==
    [][/\ srv' = srv
       /\ host' = host
       /\ \A i \in Servers :
              Fails(i)
              => /\ clock' = clock
                 /\ call[i].pc = "done" => call'[i] = Idle]_vars

\* C20 witness: on a server configured with America/New_York a call for an
\* unknown zone has failed, and the server is configured as before.
C20_Witness ==
    \E i \in Servers :
        /\ Done(i, "GetCurrentTime")
        /\ call[i].timezone = "Invalid/Timezone"
        /\ call[i].err # <<>>
        /\ srv[i] = NewTimeServer("America/New_York")

\* C21: with two calls in progress on one TimeServer, under every
\* interleaving of their steps, every returned call has the outcome of that
\* call alone with its arguments and its reading of the clock, a step of one
\* call changes nothing of the other, and no step writes the server.
C21_ConcurrentCallsAreIndependent ==
    /\ [](\A i \in Servers :
            call[i].pc = "done" /\ call[i].op \in Operations
            => \E o \in {AsIfCalledWith(i, call[i].timezone, call[i].target)} :
                   Outcome(i) = o)
    /\ [][/\ srv' = srv
          /\ \A i, j \in Servers :
                 i # j /\ call'[i] # call[i] => call'[j] = call[j]]_vars

\* C21 witness: one call has returned a conversion read at one hour while the
\* other, started before it, is still before its reading of the clock, which
\* has moved on since.
C21_Witness ==
    \E i, j \in Servers :
        /\ i # j
        /\ Succeeded(i, "ConvertTime")
        /\ call[i].now # clock
        /\ call[j].pc = "validated"
        /\ call[j].op = "ConvertTime"
        /\ srv[i] = srv[j]

\* C22: the timezone field of every returned TimeResult is the identifier the
\* caller supplied, as supplied, or the configured local zone when the
\* supplied identifier was empty; it is never the name of the zone the
\* identifier resolved to.
C22_ZoneIdentifierIsEchoed ==
    \A i \in Servers :
        call[i].pc = "done" /\ call[i].op \in Operations /\ call[i].err = <<>>
        => IF call[i].op = "ConvertTime"
           THEN /\ call[i].conv.source.timezone = Defaulted(i, call[i].timezone)
                /\ call[i].conv.target.timezone = Defaulted(i, call[i].target)
           ELSE call[i].res.timezone = Defaulted(i, call[i].timezone)

\* C22 witness: on a host in Asia/Tokyo the identifier "Local" resolves to the
\* host's zone and is returned as "Local".
C22_Witness ==
    \E i \in Servers :
        /\ Succeeded(i, "GetCurrentTime")
        /\ host.zone = "Asia/Tokyo"
        /\ call[i].timezone = "Local"
        /\ call[i].res.timezone = "Local"
        /\ SubSeq(call[i].res.datetime, 20, 25) = <<"+", "0", "9", ":", "0", "0">>

\* The checks of ConvertTime that fail for the arguments of call i, as the
\* first pieces of their errors.
FailingChecks(i) ==
    LET parts == Split(call[i].time, ":")
    IN  (IF Resolves(Defaulted(i, call[i].timezone)) THEN {}
         ELSE {"invalid source timezone: "})
        \cup (IF Resolves(Defaulted(i, call[i].target)) THEN {}
              ELSE {"invalid target timezone: "})
        \cup (IF Len(parts) = 2 THEN {}
              ELSE {"invalid time format: expected HH:MM [24-hour format]"})
        \cup (IF Len(parts) = 2 /\ InvalidHour(stringToInt(parts[1]))
              THEN {"invalid hour: expected 0-23"} ELSE {})
        \cup (IF Len(parts) = 2 /\ InvalidMinute(stringToInt(parts[2]))
              THEN {"invalid minute: expected 0-59"} ELSE {})

\* The order in which ConvertTime checks.
CheckOrder ==
    <<"invalid source timezone: ", "invalid target timezone: ",
      "invalid time format: expected HH:MM [24-hour format]",
      "invalid hour: expected 0-23", "invalid minute: expected 0-59">>

\* C23: a ConvertTime call whose arguments fail some check returns the error
\* of the first failing check in the order source zone, target zone, number
\* of segments, hour, minute, and has not read the clock; a call reads the
\* clock only when no check fails.
C23_FirstFailingCheckDecides ==
    \A i \in Servers :
        Done(i, "ConvertTime")
        => IF FailingChecks(i) = {}
           THEN call[i].err = <<>> /\ call[i].read
           ELSE /\ \E k \in 1..Len(CheckOrder) :
                      /\ call[i].err[1] = CheckOrder[k]
                      /\ CheckOrder[k] \in FailingChecks(i)
                      /\ \A m \in 1..(k - 1) : CheckOrder[m] \notin FailingChecks(i)
                /\ ~call[i].read
                /\ call[i].now = 0

\* C23 witness: both zones are unknown and the time is malformed; the error is
\* the source zone's and the clock was not read.
C23_Witness ==
    \E i \in Servers :
        /\ Done(i, "ConvertTime")
        /\ call[i].timezone = "Invalid/Timezone"
        /\ call[i].target = "Invalid/Timezone"
        /\ call[i].time = <<"a", "b", ":", "c", "d">>
        /\ Cardinality(FailingChecks(i)) = 4
        /\ call[i].err[1] = "invalid source timezone: "
        /\ ~call[i].read

\* The name UTC[+-]H or UTC[+-]H:MM of an offset in seconds: the sign of the
\* offset, its whole hours, and, when there are minutes left over, a colon
\* and the minutes as two digits.
OffsetName(offset) ==
    LET sign  == IF offset < 0 THEN "-" ELSE "+"
        hours == Abs(offset) \div 3600
        mins  == (Abs(offset) % 3600) \div 60
    IN  IF mins = 0 THEN "UTC" \o sign \o ToString(hours)
        ELSE "UTC" \o sign \o ToString(hours) \o ":"
                   \o (IF mins < 10 THEN "0" ELSE "") \o ToString(mins)

\* C24: on a host whose zone has no usable name, a server started without a
\* configured zone has the local zone UTC[+-]H, or UTC[+-]H:MM with an
\* unsigned two-digit minute when the offset is not a whole number of hours,
\* for the host's offset, positive or negative.
C24_OffsetNameDenotesHostOffset ==
    \A i \in Servers :
        Lookup(host.zone, clock).abbr \in {"", "Local"}
        => srv[i].localTimezone = OffsetName(Lookup(host.zone, clock).offset)

\* The chunk a 'data' step of process p delivers, and whether a step is one.
ChunkOf(p) ==
    SubSeq(procs[p].stdout, 1, Len(procs[p].stdout) - Len(procs'[p].stdout))

DataStep(p) ==
    /\ procs[p].listening
    /\ procs'[p].listening
    /\ Len(procs'[p].stdout) < Len(procs[p].stdout)

\* The ids of the responses a chunk holds as whole lines.
ResponsesIn(chunk) ==
    LET lines == SplitLines(chunk)
    IN  {lines[n][1].id : n \in {m \in 1..Len(lines) : IsJSONRPCResponse(lines[m])}}

\* C25: the callbacks of a request's pending entry are invoked at most once,
\* whatever the order of its response, its timeout and disconnect(); and a
\* 'data' step whose responses are all for ids without a pending entry (late
\* or unknown) changes neither the client nor any promise.
C25_SettledAtMostOnce ==
    /\ [](\A k \in DOMAIN promises : promises[k].invoked <= 1)
    /\ [][\A p \in DOMAIN procs :
            DataStep(p) /\ ResponsesIn(ChunkOf(p)) \cap DOMAIN client.pending = {}
            => client' = client /\ promises' = promises]_vars

\* C25 witness: a request timed out, and its response was handled later.
C25_Witness ==
    \E k \in DOMAIN promises :
        /\ promises[k].state = "rejected"
        /\ promises[k].reason = "timed out after 10s"
        /\ promises[k].invoked = 1
        /\ promises[k].id \in procs[promises[k].proc].handled

\* Whether the k-th call of rpc was made and its promise is settled.
Settled(k) == k \in DOMAIN promises /\ promises[k].state # "pending"

\* C26: every request made through rpc is settled in the end.  One that was
\* not written (no process, closed stdin, params that are not an object, a
\* failed write) is rejected when rpc returns; one that was written is
\* settled by its response, by its timeout or by disconnect(), and none
\* stays pending forever.
C26_EveryRequestIsSettled ==
    /\ [](\A k \in DOMAIN promises :
            /\ promises[k].proc = 0 => promises[k].state = "rejected"
            /\ promises[k].state = "rejected"
               => promises[k].reason \in
                    IF promises[k].proc = 0
                    THEN {"not connected or stdin closed",
                          "params must be an object or undefined",
                          "write failed",
                          "Client not initialized. Call initialize() first."}
                    ELSE {"server error", "timed out after 10s", "client closed"})
    /\ \A k \in 1..MaxCalls :
          [](k \in DOMAIN promises => <>Settled(k))

\* C26 witness: a request written to a process that exited without an answer
\* was settled by its timeout, and another by disconnect().
C26_Witness ==
    \E k, l \in DOMAIN promises :
        /\ promises[k].reason = "timed out after 10s"
        /\ ~procs[promises[k].proc].stdin
        /\ promises[k].id \notin procs[promises[k].proc].handled
        /\ promises[l].reason = "client closed"

\* The ids of the requests written to process p that p has answered.
Answered(p) ==
    {promises[k].id : k \in {j \in DOMAIN promises : promises[j].proc = p}}
        \ {r.id : r \in procs[p].inbox}

\* The ids some byte of which is still in the stdout of process p.
Undelivered(p) ==
    {procs[p].stdout[n].id : n \in DOMAIN procs[p].stdout}

\* C27: every response line a running process wrote while the client
\* listens to it, all of whose bytes were delivered in 'data' chunks, has
\* been passed to handle as a response, however the chunks divide the output.
C27_ChunkingLosesNoResponse ==
    \A p \in DOMAIN procs :
        procs[p].listening /\ procs[p].stdin
        => \A id \in Answered(p) \ Undelivered(p) : id \in procs[p].handled

\* C28: a tools/call request of callTool is written only to a process that
\* has answered an initialize request of this client since it was spawned;
\* otherwise callTool rejects and writes nothing.
C28_ToolCallsOnlyToInitializedProcess ==
    \A k \in DOMAIN promises :
        promises[k].cont = "callTool"
        => IF promises[k].proc # 0
           THEN procs[promises[k].proc].answeredInit
           ELSE promises[k].id = 0 \/ promises[k].reason = "write failed"

\* C29: in every state the client can be in, disconnect() leaves the process
\* handle null, the pending map empty and the initialized flag false, with
\* every request that was pending rejected with 'client closed' and its timer
\* cancelled; it changes nothing when the client has no process (never
\* connected, or disconnected already), and nothing when called again.
C29_DisconnectLeavesNothingPending ==
    LET w == Disconnected(World)
    IN  /\ w.client.proc = 0
        /\ w.client.pending = <<>>
        /\ ~w.client.initialized
        /\ \A id \in DOMAIN client.pending :
              LET k == client.pending[id]
              IN  /\ w.promises[k].state = "rejected"
                  /\ w.promises[k].reason = "client closed"
                  /\ ~w.promises[k].timer
        /\ \A k \in DOMAIN promises :
              promises[k].state # "pending" => w.promises[k] = promises[k]
        /\ (client.proc = 0 => w = World)
        /\ Disconnected(w) = w

\* C29 witness: disconnect() has rejected a pending request of an initialized
\* client.
C29_Witness ==
    /\ client.proc = 0
    /\ client.pending = <<>>
    /\ ~client.initialized
    /\ \E k, l \in DOMAIN promises :
          /\ promises[k].state = "resolved"
          /\ promises[k].cont = "initialize"
          /\ promises[l].state = "rejected"
          /\ promises[l].reason = "client closed"
          /\ ~promises[l].timer
          /\ promises[l].invoked = 1

\* The calls of rpc that took a request id, in the order they were made.
Allocating == SelectSeq(promises, LAMBDA pr : pr.id # 0)

\* C30: the request ids taken are 1, 2, 3, ... in the order of the calls,
\* each taken once, across disconnect() and connect() too; every key of the
\* pending map is the id of exactly one request, which was written and is
\* not settled; and a call rejected for 'not connected' takes no id and adds
\* no entry.
C30_RequestIdsAreFresh ==
    /\ [](/\ \A n \in DOMAIN Allocating : Allocating[n].id = n
          /\ client.nextId = Len(Allocating) + 1
          /\ \A id \in DOMAIN client.pending :
                /\ Cardinality({k \in DOMAIN promises : promises[k].id = id}) = 1
                /\ promises[client.pending[id]].id = id
                /\ promises[client.pending[id]].proc # 0
                /\ promises[client.pending[id]].state = "pending"
          /\ \A k \in DOMAIN promises :
                promises[k].reason = "not connected or stdin closed"
                => promises[k].id = 0)
    /\ [][Len(promises') > Len(promises)
          /\ promises'[Len(promises')].reason = "not connected or stdin closed"
          => client' = client]_vars

\* C30 witness: a request was written to one process, the client
\* disconnected and connected again, and the next request, pending at the
\* second process, has the next id.
C30_Witness ==
    /\ Len(promises) = 2
    /\ promises[1].id = 1
    /\ promises[1].proc = 1
    /\ promises[1].reason = "client closed"
    /\ promises[2].id = 2
    /\ promises[2].proc = 2
    /\ 2 \in DOMAIN client.pending

====
